---- MODULE Spec2Model ----
(***************************************************************************)
(* A model of AEMbot's scheduling and ledger engine: the game calendar,    *)
(* the structured store (data.json), the weekly CSV logs, the points       *)
(* ledger with fuzzy name reconciliation, the MG/ZS occurrence calculator, *)
(* the one-minute notification firer and the draw engine.                  *)
(*                                                                         *)
(* Time is counted in seconds since 00:00 UTC of day 0, and day 0 is a     *)
(* Monday.  A date is a day number; an ISO week key is the number of the   *)
(* Monday-based week that holds the date (the f"{iso.year}-{iso.week:02d}" *)
(* string is one-to-one with it).  A name is a sequence of characters,     *)
(* each a one-character string; a character outside ASCII is written as    *)
(* its code point ("U+00D8").                                              *)
(***************************************************************************)
EXTENDS Integers, Sequences, FiniteSets, TLC

\* ------------------------------------------------------------------------
\* Program constants
\* ------------------------------------------------------------------------
THRESHOLD == 7200000
GAME_CUTOVER_UTC == 2
INGEST_QUIET_MINUTES == 5
AUTO_DRAW_D == TRUE
AUTO_DRAW_W == TRUE
AUTO_VS_REMINDER == TRUE

MinuteSecs == 60
HourSecs == 60 * MinuteSecs
DaySecs == 24 * HourSecs

\* ------------------------------------------------------------------------
\* GameCalendar (utils/date_utils.py, utils/csv_utils.py)
\* ------------------------------------------------------------------------
DateOf(t) == t \div DaySecs
SecOfDay(t) == t % DaySecs
AtTime(d, hh, mm) == d * DaySecs + hh * HourSecs + mm * MinuteSecs

\* to_game_date with a cutover that the previous day keeps hold of
to_game_date_late(cutover, t) ==
    IF SecOfDay(t) > cutover * HourSecs THEN DateOf(t) ELSE DateOf(t) - 1

\* to_game_date under CUTOVER_UTC = time(cutover, 0, 0)
to_game_date_under(cutover, t) ==
    IF SecOfDay(t) >= cutover * HourSecs THEN DateOf(t) ELSE DateOf(t) - 1

to_game_date(t) == to_game_date_under(GAME_CUTOVER_UTC, t)

from_game_date(d) == AtTime(d, 12, 0)

isoweekday(d) == (d % 7) + 1

iso_week_key(d) == d \div 7

monday_of(d) == d - (isoweekday(d) - 1)

\* week_csv_names: a week's pair of logs is named by the week's closing Sunday,
\* taken from the calendar date of the instant handed in.
week_csv_names(t) == monday_of(DateOf(t)) + 6

game_week_monsat(t) ==
    LET monday == monday_of(to_game_date(t))
    IN  [i \in 1..6 |-> from_game_date(monday + (i - 1))]

game_week_monfri(t) ==
    LET monday == monday_of(to_game_date(t))
    IN  [i \in 1..5 |-> from_game_date(monday + (i - 1))]

\* ------------------------------------------------------------------------
\* Name matching helpers (storage.py)
\* ------------------------------------------------------------------------
UpperChars == <<"A","B","C","D","E","F","G","H","I","J","K","L","M",
                "N","O","P","Q","R","S","T","U","V","W","X","Y","Z">>
LowerChars == <<"a","b","c","d","e","f","g","h","i","j","k","l","m",
                "n","o","p","q","r","s","t","u","v","w","x","y","z">>
DigitChars == {"0","1","2","3","4","5","6","7","8","9"}
NonAsciiUpper == <<"U+00D8">>
NonAsciiLower == <<"U+00F8">>

Range(f) == {f[i] : i \in DOMAIN f}

IsAlphaChar(c) == c \in Range(UpperChars) \cup Range(LowerChars)
IsAlnumChar(c) == IsAlphaChar(c) \/ c \in DigitChars
IsSpaceChar(c) == c = " "
IsAsciiChar(c) == c \notin Range(NonAsciiUpper) \cup Range(NonAsciiLower)

CasefoldChar(c) ==
    IF c \in Range(UpperChars)
    THEN LowerChars[CHOOSE i \in DOMAIN UpperChars : UpperChars[i] = c]
    ELSE IF c \in Range(NonAsciiUpper)
    THEN NonAsciiLower[CHOOSE i \in DOMAIN NonAsciiUpper : NonAsciiUpper[i] = c]
    ELSE c

Casefold(s) == [i \in DOMAIN s |-> CasefoldChar(s[i])]

RECURSIVE StripLeft(_)
StripLeft(s) ==
    IF s # <<>> /\ IsSpaceChar(Head(s)) THEN StripLeft(Tail(s)) ELSE s

RECURSIVE CollapseRuns(_)
\* s has no leading space: keep one space per run, drop a trailing run
CollapseRuns(s) ==
    IF s = <<>> THEN <<>>
    ELSE IF IsSpaceChar(Head(s))
         THEN LET rest == StripLeft(s)
              IN  IF rest = <<>> THEN <<>> ELSE <<" ">> \o CollapseRuns(rest)
         ELSE <<Head(s)>> \o CollapseRuns(Tail(s))

_collapse_spaces(s) == CollapseRuns(StripLeft(s))

_canonical_key(s) == Casefold(_collapse_spaces(s))

\* _is_ascii without the test: every name counts as pure ASCII
_is_ascii_unchecked(s) == TRUE

_is_ascii(s) == \A i \in DOMAIN s : IsAsciiChar(s[i])

Min2(a, b) == IF a <= b THEN a ELSE b
Min3(a, b, c) == Min2(a, Min2(b, c))

\* The element of a one-element set
TheOne(S) == CHOOSE x \in S : TRUE

\* One row of the edit-distance table: curr[1] = i, then left to right.
RECURSIVE LevRow(_, _, _, _)
LevRow(ca, b, prev, curr) ==
    LET j == Len(curr)
    IN  IF j > Len(b) THEN curr
        ELSE LET ins  == curr[j] + 1
                 dele == prev[j + 1] + 1
                 sub  == prev[j] + (IF ca = b[j] THEN 0 ELSE 1)
             IN  TheOne({LevRow(ca, b, prev, next) : next \in {Append(curr, Min3(ins, dele, sub))}})

RECURSIVE LevRows(_, _, _, _)
LevRows(a, b, i, prev) ==
    IF i > Len(a) THEN prev
    ELSE TheOne({LevRows(a, b, i + 1, row) : row \in {LevRow(a[i], b, prev, <<i>>)}})

_levenshtein(a, b) ==
    IF a = b THEN 0
    ELSE IF Len(a) = 0 THEN Len(b)
    ELSE IF Len(b) = 0 THEN Len(a)
    ELSE LET last == LevRows(a, b, 1, [j \in 1..(Len(b) + 1) |-> j - 1])
         IN  last[Len(b) + 1]

RECURSIVE Alnums(_)
Alnums(s) ==
    IF s = <<>> THEN <<>>
    ELSE IF IsAlnumChar(Head(s)) THEN <<Head(s)>> \o Alnums(Tail(s))
    ELSE Alnums(Tail(s))

_first_last_alnum_equal(a, b) ==
    LET ra == Alnums(a)
        rb == Alnums(b)
    IN  IF ra = <<>> \/ rb = <<>> THEN FALSE
        ELSE /\ CasefoldChar(ra[1]) = CasefoldChar(rb[1])
             /\ CasefoldChar(ra[Len(ra)]) = CasefoldChar(rb[Len(rb)])

_names_equivalent(a, b) ==
    IF _canonical_key(a) = _canonical_key(b) THEN TRUE
    ELSE IF _is_ascii(a) /\ _is_ascii(b)
    THEN LET aa == _collapse_spaces(a)
             bb == _collapse_spaces(b)
         IN  IF Min2(Len(aa), Len(bb)) >= 5 /\ _first_last_alnum_equal(aa, bb)
             THEN _levenshtein(Casefold(aa), Casefold(bb)) <= 1
             ELSE FALSE
    ELSE FALSE

RECURSIVE AlphaCount(_)
AlphaCount(s) ==
    IF s = <<>> THEN 0
    ELSE (IF IsAlphaChar(Head(s)) THEN 1 ELSE 0) + AlphaCount(Tail(s))

_pick_display_name(a, b) ==
    LET na == AlphaCount(a)
        nb == AlphaCount(b)
    IN  IF nb > na THEN b
        ELSE IF nb = na /\ Len(b) > Len(a) THEN b
        ELSE a

\* str.lower() as used on roster and pool names (ASCII and the modelled letters)
Lower(s) == Casefold(s)

\* ------------------------------------------------------------------------
\* Python dict as an insertion-ordered sequence of [k, v] items
\* ------------------------------------------------------------------------
DictKeys(d) == [i \in DOMAIN d |-> d[i].k]
DictHas(d, key) == \E i \in DOMAIN d : d[i].k = key
DictGet(d, key, default) ==
    IF DictHas(d, key) THEN d[CHOOSE i \in DOMAIN d : d[i].k = key].v ELSE default
DictSet(d, key, val) ==
    IF DictHas(d, key)
    THEN LET at == CHOOSE i \in DOMAIN d : d[i].k = key
         IN  SubSeq(d, 1, at - 1) \o <<[k |-> key, v |-> val]>> \o SubSeq(d, at + 1, Len(d))
    ELSE Append(d, [k |-> key, v |-> val])
DictPop(d, key) == SelectSeq(d, LAMBDA it : it.k # key)

\* ------------------------------------------------------------------------
\* The structured store, data.json (storage.py).  A section that is absent
\* from the document reads as its setdefault value, so the empty document
\* is the document of defaults.  A fired mark's value (the instant it was
\* set) is never read: fired_marks is kept as the set of its keys.
\* ------------------------------------------------------------------------
NoHHMM == <<>>
NoSchedule == <<>>

EmptyDoc ==
    [ schedules   |-> [kind \in {"MG", "ZS"} |-> NoSchedule],
      train       |-> [drivers |-> <<>>, anchor_monday |-> -1, post_full_on_monday |-> TRUE],
      auto        |-> [f \in {"AUTO_DRAW_D", "AUTO_DRAW_W", "AUTO_VS_REMINDER", "AUTO_TRAIN_POST"} |-> "None"],
      fired_marks |-> {},
      points      |-> <<>> ]

set_schedule(d, kind, first_utc, hhmm_server, repeat_days, weekend_hhmm, t) ==
    [d EXCEPT !.schedules[kind] =
        << [ first_utc    |-> first_utc,
             hhmm_server  |-> hhmm_server,
             weekend_hhmm |-> weekend_hhmm,
             repeat_days  |-> repeat_days,
             updated_at   |-> t ] >>]

get_schedule(d, kind) == d.schedules[kind]

set_train_drivers(d, drivers) ==
    [d EXCEPT !.train.drivers = SubSeq(drivers, 1, Min2(Len(drivers), 10))]

get_train_config(d) == d.train

set_auto_toggle(d, name, value) == [d EXCEPT !.auto[name] = value]

mark_fired(d, key) == [d EXCEPT !.fired_marks = @ \cup {key}]

\* A has_fired that never finds a mark
has_fired_forgets(d, key) == FALSE

has_fired(d, key) == key \in d.fired_marks

\* ------------------------------------------------------------------------
\* RecurringEventScheduler (commands/mg_zs.py).  An HHmm text is a sequence
\* of digit characters.
\* ------------------------------------------------------------------------
Digits == <<"0","1","2","3","4","5","6","7","8","9">>
DigitVal(c) == (CHOOSE i \in DOMAIN Digits : Digits[i] = c) - 1

RECURSIVE IntOf(_)
\* int() of a non-empty text of digits
IntOf(s) == IF Len(s) = 1 THEN DigitVal(s[1])
            ELSE 10 * IntOf(SubSeq(s, 1, Len(s) - 1)) + DigitVal(s[Len(s)])

IsDigitText(s) == \A i \in DOMAIN s : s[i] \in DigitChars

\* _parse_hhmm: <<>> for None, else <<hh, mm>>
_parse_hhmm(hhmm) ==
    IF Len(hhmm) \notin {3, 4} \/ ~IsDigitText(hhmm) THEN <<>>
    ELSE LET z  == IF Len(hhmm) = 3 THEN <<"0">> \o hhmm ELSE hhmm
             hh == IntOf(SubSeq(z, 1, 2))
             mm == IntOf(SubSeq(z, 3, 4))
         IN  IF hh < 24 /\ mm < 60 THEN <<hh, mm>> ELSE <<>>

_server_dt_to_utc(t) == t + 2 * HourSecs
_utc_to_server_dt(t) == t - 2 * HourSecs
\* A weekend test that knows Sunday only
_weekday_is_weekend_sunday_only(d) == isoweekday(d) = 7

_weekday_is_weekend(d) == isoweekday(d) \in {6, 7}

\* An anti-overlap step that never moves the candidate
_maybe_avoid_overlap_never(d, candidate_utc, base_date, is_weekend) == <<candidate_utc, FALSE>>

\* <<instant, adjusted>>
_maybe_avoid_overlap_with_mg(d, candidate_utc, base_date, is_weekend) ==
    LET mg == get_schedule(d, "MG")
    IN  IF mg = NoSchedule THEN <<candidate_utc, FALSE>>
        ELSE LET mg_cfg    == mg[1]
                 mg_repeat == mg_cfg.repeat_days
                 mg_first_server == _utc_to_server_dt(mg_cfg.first_utc)
                 delta_days == base_date - DateOf(mg_first_server)
                 mg_hhmm == IF is_weekend /\ mg_cfg.weekend_hhmm # NoHHMM
                            THEN mg_cfg.weekend_hhmm ELSE mg_cfg.hhmm_server
                 t_mg == _parse_hhmm(mg_hhmm)
             IN  IF mg_repeat <= 0 THEN <<candidate_utc, FALSE>>
                 ELSE IF delta_days < 0 \/ (delta_days % mg_repeat) # 0
                      THEN <<candidate_utc, FALSE>>
                 ELSE IF t_mg = <<>> THEN <<candidate_utc, FALSE>>
                 ELSE IF _server_dt_to_utc(AtTime(base_date, t_mg[1], t_mg[2])) = candidate_utc
                      THEN <<candidate_utc + 30 * MinuteSecs, TRUE>>
                 ELSE <<candidate_utc, FALSE>>

\* The body of _next_occurrences' loop for one base_date:
\* [ok, utc, weekend, adjusted]; ok is FALSE when the HHmm does not parse.
OccurrenceOn(d, kind, base_date) ==
    LET cfg        == get_schedule(d, kind)[1]
        is_weekend == _weekday_is_weekend(base_date)
        special    == is_weekend /\ cfg.weekend_hhmm # NoHHMM
        use_hhmm   == IF special THEN cfg.weekend_hhmm ELSE cfg.hhmm_server
        t          == _parse_hhmm(use_hhmm)
    IN  IF t = <<>> THEN [ok |-> FALSE, utc |-> 0, weekend |-> special, adjusted |-> FALSE]
        ELSE LET candidate_utc == _server_dt_to_utc(AtTime(base_date, t[1], t[2]))
                 adj == IF kind = "ZS"
                        THEN _maybe_avoid_overlap_with_mg(d, candidate_utc, base_date, is_weekend)
                        ELSE <<candidate_utc, FALSE>>
             IN  [ok |-> TRUE, utc |-> adj[1], weekend |-> special, adjusted |-> adj[2]]

RECURSIVE NextOccLoop(_, _, _, _, _, _, _)
NextOccLoop(d, kind, t, count, k, tried, out) ==
    IF Len(out) >= count \/ tried >= 365 THEN out
    ELSE LET cfg == get_schedule(d, kind)[1]
             base_date == DateOf(_utc_to_server_dt(cfg.first_utc)) + k * cfg.repeat_days
             occ == OccurrenceOn(d, kind, base_date)
         IN  IF ~occ.ok THEN out
             ELSE NextOccLoop(d, kind, t, count, k + 1, tried + 1,
                              IF occ.utc >= t
                              THEN Append(out, [utc |-> occ.utc, date |-> base_date,
                                                weekend |-> occ.weekend, adjusted |-> occ.adjusted])
                              ELSE out)

_next_occurrences(d, kind, count, t) ==
    IF get_schedule(d, kind) = NoSchedule THEN <<>>
    ELSE LET cfg == get_schedule(d, kind)[1]
             first_date == DateOf(_utc_to_server_dt(cfg.first_utc))
             now_date   == DateOf(_utc_to_server_dt(t))
             k0 == IF now_date <= first_date THEN 0
                   ELSE (now_date - first_date) \div cfg.repeat_days
         IN  IF cfg.repeat_days <= 0 THEN <<>>
             ELSE NextOccLoop(d, kind, t, count, k0, 0, <<>>)

\* ------------------------------------------------------------------------
\* NotificationFirer (scheduler.py, announcer.py).  One tick works on a
\* world w = [doc, mtime, sorteos, outbox, aborted]: the document, the
\* instant data.json was last written (-1: no file), the draw logs, the
\* messages delivered so far and whether an exception has left the tick.
\* net is the notifier's answer during the tick: "ok", "forbidden_mention"
\* (a send that mentions everyone raises Forbidden, other sends pass) or
\* "fail" (every send raises).
\* ------------------------------------------------------------------------
EVENT_LABELS == [MG |-> 2, ZS |-> 3]

LeadTimes == << [label |-> "24h", delta |-> 24 * HourSecs],
                [label |-> "12h", delta |-> 12 * HourSecs],
                [label |-> "10m", delta |-> 10 * MinuteSecs],
                [label |-> "5m",  delta |-> 5 * MinuteSecs] >>

Abs(x) == IF x < 0 THEN -x ELSE x

Deliver(w, key, form, body) ==
    [w EXCEPT !.outbox = Append(@, [key |-> key, form |-> form, body |-> body])]
Marked(w, key, t) == [w EXCEPT !.doc = mark_fired(@, key), !.mtime = t]
Raised(w) == [w EXCEPT !.aborted = TRUE]

\* channel.send of a message without a broadcast-wide mention
send_plain(w, key, body, net) ==
    IF net = "fail" THEN Raised(w) ELSE Deliver(w, key, "plain", body)

\* An urgent send that does not catch Forbidden
send_event_before_urgent_no_fallback(w, key, net) ==
    IF net = "ok" THEN Deliver(w, key, "everyone", <<>>) ELSE Raised(w)

\* The send with the broadcast-wide mention and, on Forbidden, the one
\* re-send without it
send_event_before_urgent(w, key, net) ==
    IF net = "ok" THEN Deliver(w, key, "everyone", <<>>)
    ELSE IF net = "forbidden_mention" THEN Deliver(w, key, "safe", <<>>)
    ELSE Raised(w)

_maybe_fire(w, kind, gd_candidate, event_dt, t, lead, net) ==
    IF w.aborted THEN w
    ELSE IF Abs(t - (event_dt - lead.delta)) <= 59
    THEN LET key == <<kind, gd_candidate, lead.label>>
         IN  IF has_fired(w.doc, key) THEN w
             ELSE LET sent == IF lead.label \in {"10m", "5m"}
                              THEN send_event_before_urgent(w, key, net)
                              ELSE send_plain(w, key, <<>>, net)
                  IN  IF sent.aborted THEN sent ELSE Marked(sent, key, t)
    ELSE w

\* The instant _handle_event takes for the occurrence of gd_candidate:
\* [ok, raises, utc, hhmm]; ok is FALSE where int() fails (the day is
\* skipped), raises is TRUE where datetime.replace rejects the minute.
FirerEventDt(cfg, gd_candidate) ==
    LET hhmm_default == cfg.hhmm_server
        hhmm_weekend == IF cfg.weekend_hhmm # NoHHMM THEN cfg.weekend_hhmm ELSE hhmm_default
        hhmm == IF isoweekday(gd_candidate) \in {6, 7} THEN hhmm_weekend ELSE hhmm_default
    IN  IF Len(hhmm) < 3 \/ ~IsDigitText(hhmm)
        THEN [ok |-> FALSE, raises |-> FALSE, utc |-> 0, hhmm |-> hhmm]
        ELSE LET hh == IntOf(SubSeq(hhmm, 1, 2))
                 mm == IntOf(SubSeq(hhmm, 3, Len(hhmm)))
                 event_utc_hour == (hh + 2) % 24
             IN  [ok |-> TRUE, raises |-> mm > 59,
                  utc |-> AtTime(gd_candidate, event_utc_hour, mm), hhmm |-> hhmm]

\* Whether _handle_event treats gd_candidate as an occurrence day of kind
FirerOccursOn(cfg, kind, gd_candidate) ==
    LET delta_days == gd_candidate - to_game_date(cfg.first_utc)
    IN  delta_days >= 0 /\ (delta_days % EVENT_LABELS[kind]) = 0

RECURSIVE FireLeads(_, _, _, _, _, _, _)
FireLeads(w, kind, gd_candidate, event_dt, t, i, net) ==
    IF i > Len(LeadTimes) THEN w
    ELSE FireLeads(_maybe_fire(w, kind, gd_candidate, event_dt, t, LeadTimes[i], net),
                   kind, gd_candidate, event_dt, t, i + 1, net)

RECURSIVE HandleEventDays(_, _, _, _, _, _)
HandleEventDays(w, cfg, kind, t, day_offset, net) ==
    IF day_offset > 7 \/ w.aborted THEN w
    ELSE LET gd_candidate == to_game_date(t) + day_offset
             ev == FirerEventDt(cfg, gd_candidate)
             next == IF ~FirerOccursOn(cfg, kind, gd_candidate) \/ ~ev.ok THEN w
                     ELSE IF ev.raises THEN Raised(w)
                     ELSE FireLeads(w, kind, gd_candidate, ev.utc, t, 1, net)
         IN  HandleEventDays(next, cfg, kind, t, day_offset + 1, net)

_handle_event(w, t, kind, net) ==
    IF w.aborted \/ get_schedule(w.doc, kind) = NoSchedule THEN w
    ELSE HandleEventDays(w, get_schedule(w.doc, kind)[1], kind, t, -1, net)

\* Lexicographic order of two texts of digits (a proper prefix comes first)
RECURSIVE TextLeq(_, _)
TextLeq(a, b) ==
    IF a = <<>> THEN TRUE
    ELSE IF b = <<>> THEN FALSE
    ELSE IF DigitVal(Head(a)) # DigitVal(Head(b)) THEN DigitVal(Head(a)) < DigitVal(Head(b))
    ELSE TextLeq(Tail(a), Tail(b))

CalEntryLeq(x, y) ==
    \/ isoweekday(x.day) < isoweekday(y.day)
    \/ isoweekday(x.day) = isoweekday(y.day) /\ TextLeq(x.hhmm, y.hhmm)

RECURSIVE InsertSorted(_, _)
\* stable: e goes after the entries that compare equal to it
InsertSorted(sorted, e) ==
    IF sorted = <<>> THEN <<e>>
    ELSE IF CalEntryLeq(Head(sorted), e) THEN <<Head(sorted)>> \o InsertSorted(Tail(sorted), e)
    ELSE <<e>> \o sorted

RECURSIVE SortEntries(_, _)
SortEntries(entries, acc) ==
    IF entries = <<>> THEN acc
    ELSE SortEntries(Tail(entries), InsertSorted(acc, Head(entries)))

\* The digest lines of one kind whatever the age of its schedule
CalEntriesOf_any_age(d, kind, gd_mon) ==
    IF get_schedule(d, kind) = NoSchedule THEN <<>>
    ELSE LET cfg == get_schedule(d, kind)[1]
             first_gd == to_game_date(cfg.first_utc)
             hhmm_weekend == IF cfg.weekend_hhmm # NoHHMM THEN cfg.weekend_hhmm ELSE cfg.hhmm_server
             line(i) == [day |-> gd_mon + i,
                         hhmm |-> IF isoweekday(gd_mon + i) \in {6, 7}
                                  THEN hhmm_weekend ELSE cfg.hhmm_server,
                         kind |-> kind]
             occurs(i) == (gd_mon + i) - first_gd >= 0
                          /\ (((gd_mon + i) - first_gd) % EVENT_LABELS[kind]) = 0
             all == [i \in 1..7 |-> line(i - 1)]
         IN  SelectSeq(all, LAMBDA e : occurs(e.day - gd_mon))

\* The digest lines of one kind for the week gd_mon .. gd_mon + 6
CalEntriesOf(d, kind, gd_mon) ==
    IF get_schedule(d, kind) = NoSchedule THEN <<>>
    ELSE LET cfg == get_schedule(d, kind)[1]
             first_gd == to_game_date(cfg.first_utc)
             hhmm_weekend == IF cfg.weekend_hhmm # NoHHMM THEN cfg.weekend_hhmm ELSE cfg.hhmm_server
             line(i) == [day |-> gd_mon + i,
                         hhmm |-> IF isoweekday(gd_mon + i) \in {6, 7}
                                  THEN hhmm_weekend ELSE cfg.hhmm_server,
                         kind |-> kind]
             occurs(i) == (gd_mon + i) - first_gd >= 0
                          /\ (((gd_mon + i) - first_gd) % EVENT_LABELS[kind]) = 0
             all == [i \in 1..7 |-> line(i - 1)]
         IN  IF to_game_date(cfg.updated_at) >= gd_mon THEN <<>>
             ELSE SelectSeq(all, LAMBDA e : occurs(e.day - gd_mon))

_maybe_send_week_calendar(w, t, net) ==
    LET gd_sun == to_game_date(t)
        gd_mon == gd_sun - 6
        key == <<"CAL", iso_week_key(gd_sun), "">>
        entries == SortEntries(CalEntriesOf(w.doc, "MG", gd_mon) \o CalEntriesOf(w.doc, "ZS", gd_mon), <<>>)
    IN  IF w.aborted \/ has_fired(w.doc, key) THEN w
        ELSE IF entries = <<>> THEN w
        ELSE LET sent == send_plain(w, key, entries, net)
             IN  IF sent.aborted THEN sent ELSE Marked(sent, key, t)

\* ------------------------------------------------------------------------
\* PointsLedger (storage.py, commands/points.py).  doc.points is the dict
\* of day lists keyed by <<week key, day>>; a day list is a sequence of
\* [name, points] entries.
\* ------------------------------------------------------------------------
_DAY_OFFSETS == [mon |-> 0, tue |-> 1, wed |-> 2, thu |-> 3, fri |-> 4, sat |-> 5]
_DAY_KEY_FROM_WEEKDAY == <<"mon", "tue", "wed", "thu", "fri", "sat">>
NoDay == ""

RECURSIVE StripRight(_)
StripRight(s) ==
    IF s # <<>> /\ IsSpaceChar(s[Len(s)]) THEN StripRight(SubSeq(s, 1, Len(s) - 1)) ELSE s
Strip(s) == StripRight(StripLeft(s))

RECURSIVE ExistingDisplay(_, _, _)
\* existing_display after the scan of day_list: <<>> stands for None
ExistingDisplay(day_list, name, acc) ==
    IF day_list = <<>> THEN acc
    ELSE LET ename == Head(day_list).name
         IN  ExistingDisplay(Tail(day_list), name,
                 IF _names_equivalent(ename, name)
                 THEN (IF acc = <<>> THEN ename ELSE _pick_display_name(acc, ename))
                 ELSE acc)

\* The display name the new entry gets, given the scan's result
DisplayName(existing_display, name) ==
    IF existing_display # <<>> THEN existing_display ELSE _collapse_spaces(name)

RECURSIVE SumPoints(_)
SumPoints(entries) == IF entries = <<>> THEN 0 ELSE Head(entries).points + SumPoints(Tail(entries))

RECURSIVE ToKeep(_, _)
\* to_keep after the scan of day_list: the entries not equivalent to name
ToKeep(day_list, name) ==
    IF day_list = <<>> THEN <<>>
    ELSE IF _names_equivalent(Head(day_list).name, name) THEN ToKeep(Tail(day_list), name)
    ELSE <<Head(day_list)>> \o ToKeep(Tail(day_list), name)

\* A ledger that adds the new amount to what the day already holds for the name
NewDayList_adds(day_list, name, amount) ==
    LET to_keep == SelectSeq(day_list, LAMBDA e : ~_names_equivalent(e.name, name))
        dropped == SelectSeq(day_list, LAMBDA e : _names_equivalent(e.name, name))
        display_name == DisplayName(ExistingDisplay(day_list, name, <<>>), name)
    IN  Append(to_keep, [name |-> display_name, points |-> amount + SumPoints(dropped)])

\* A ledger that drops only the entries stored under the very name given
NewDayList_same_text(day_list, name, amount) ==
    LET to_keep == SelectSeq(day_list, LAMBDA e : e.name # _collapse_spaces(name))
    IN  Append(to_keep, [name |-> _collapse_spaces(name), points |-> amount])

\* The new day list: equivalent entries dropped, the new total appended
NewDayList(day_list, name, amount) ==
    LET to_keep == ToKeep(day_list, name)
        display_name == DisplayName(ExistingDisplay(day_list, name, <<>>), name)
    IN  Append(to_keep, [name |-> display_name, points |-> amount])

\* register_points(name, amount, day, ref_date) with base the instant that
\* ref_date (or the clock) gives: [ok, doc, week_key, date_key, display]
register_points(d, name, amount, day, base) ==
    LET game_today == to_game_date(base)
        monday     == monday_of(game_today)
        target     == IF day # NoDay THEN monday + _DAY_OFFSETS[day] ELSE game_today
        week_key   == iso_week_key(target)
        bucket     == <<week_key, target>>
        day_list   == DictGet(d.points, bucket, <<>>)
        new_list   == NewDayList(day_list, name, amount)
    IN  IF isoweekday(target) = 7
        THEN [ok |-> FALSE, doc |-> d, week_key |-> week_key, date_key |-> target, display |-> <<>>]
        ELSE [ok |-> TRUE,
              doc |-> [d EXCEPT !.points = DictSet(@, bucket, new_list)],
              week_key |-> week_key, date_key |-> target,
              display |-> new_list[Len(new_list)].name]

\* A date handed in as ref_date is taken at 00:00 UTC
RefDateInstant(ref_date) == AtTime(ref_date, 0, 0)

\* The target computation without the refusal of days still to come
PointsTarget_any_day(t, day) ==
    LET current_gd == to_game_date(t)
        current_wd == isoweekday(current_gd)
        monday_gd  == current_gd - (current_wd - 1)
        desired_idx == _DAY_OFFSETS[day] + 1
        yesterday  == current_gd - 1
    IN  IF day = NoDay
        THEN [ok |-> TRUE,
              target_gd |-> IF isoweekday(yesterday) = 7 THEN yesterday - 1 ELSE yesterday]
        ELSE IF current_wd = 1
        THEN [ok |-> TRUE, target_gd |-> (monday_gd - 7) + (desired_idx - 1)]
        ELSE [ok |-> TRUE, target_gd |-> monday_gd + (desired_idx - 1)]

\* The target game day the points command computes:
\* [ok, target_gd]; ok is FALSE where the command answers with a rejection
PointsTarget(t, day) ==
    LET current_gd == to_game_date(t)
        current_wd == isoweekday(current_gd)
        monday_gd  == current_gd - (current_wd - 1)
        desired_idx == _DAY_OFFSETS[day] + 1
        yesterday  == current_gd - 1
    IN  IF day = NoDay
        THEN [ok |-> TRUE,
              target_gd |-> IF isoweekday(yesterday) = 7 THEN yesterday - 1 ELSE yesterday]
        ELSE IF current_wd = 7
        THEN [ok |-> TRUE, target_gd |-> monday_gd + (desired_idx - 1)]
        ELSE IF current_wd = 1
        THEN [ok |-> TRUE, target_gd |-> (monday_gd - 7) + (desired_idx - 1)]
        ELSE IF desired_idx > current_wd
        THEN [ok |-> FALSE, target_gd |-> current_gd]
        ELSE [ok |-> TRUE, target_gd |-> monday_gd + (desired_idx - 1)]

\* append_registro
RegistroRow(target, display, amount) ==
    [file |-> week_csv_names(AtTime(target, 0, 0)), fecha_dia |-> target,
     nombre |-> display, puntos |-> amount]

\* The whole points command: [ok, doc, target_gd, week_key, date_key, display]
points(d, t, name, amount, day) ==
    LET tg == PointsTarget(t, day)
        when == DateOf(from_game_date(tg.target_gd))
        reg == register_points(d, Strip(name), amount,
                               _DAY_KEY_FROM_WEEKDAY[isoweekday(when)],
                               RefDateInstant(tg.target_gd))
        rejected == [ok |-> FALSE, doc |-> d, target_gd |-> tg.target_gd,
                     week_key |-> 0, date_key |-> 0, display |-> <<>>]
    IN  IF ~tg.ok \/ isoweekday(when) \notin 1..6 THEN rejected
        ELSE IF ~reg.ok THEN rejected
        ELSE [ok |-> TRUE, doc |-> reg.doc, target_gd |-> tg.target_gd,
              week_key |-> reg.week_key, date_key |-> reg.date_key, display |-> reg.display]

\* ---- weekly_summary ----
RECURSIVE FirstEquivalent(_, _, _)
\* index of the first item whose key is equivalent to name, 0 if none
FirstEquivalent(items, name, i) ==
    IF i > Len(items) THEN 0
    ELSE IF _names_equivalent(items[i].k, name) THEN i
    ELSE FirstEquivalent(items, name, i + 1)

RECURSIVE PerDayMerge(_, _)
\* items: [k (first raw name), disp, v] in insertion order
PerDayMerge(entries, items) ==
    IF entries = <<>> THEN items
    ELSE LET raw == Head(entries).name
             pts == Head(entries).points
             hit == FirstEquivalent(items, raw, 1)
         IN  IF hit = 0
             THEN PerDayMerge(Tail(entries),
                      Append(items, [k |-> raw, disp |-> _collapse_spaces(raw), v |-> pts]))
             ELSE PerDayMerge(Tail(entries),
                      [items EXCEPT ![hit] =
                          [k |-> @.k, disp |-> _pick_display_name(@.disp, raw), v |-> @.v + pts]])

DayEligibles(items) ==
    LET hit == SelectSeq(items, LAMBDA it : it.v >= THRESHOLD)
    IN  [i \in DOMAIN hit |-> hit[i].disp]

RECURSIVE WeekMerge(_, _)
\* sums: the dict name -> sum, fed with one day's merged items
WeekMerge(items, sums) ==
    IF items = <<>> THEN sums
    ELSE LET disp == Head(items).disp
             v    == Head(items).v
             hit  == FirstEquivalent(sums, disp, 1)
         IN  IF hit = 0 THEN WeekMerge(Tail(items), DictSet(sums, disp, v))
             ELSE LET hit_week == sums[hit].k
                      new_disp == _pick_display_name(hit_week, disp)
                      moved == IF new_disp # hit_week
                               THEN DictSet(DictPop(sums, hit_week), new_disp, sums[hit].v)
                               ELSE sums
                  IN  WeekMerge(Tail(items),
                          DictSet(moved, new_disp, DictGet(moved, new_disp, 0) + v))

RECURSIVE WeekSums(_, _, _, _)
WeekSums(d, week_key, monday, i) ==
    IF i = 0 THEN <<>>
    ELSE WeekMerge(PerDayMerge(DictGet(d.points, <<week_key, monday + (i - 1)>>, <<>>), <<>>),
                   WeekSums(d, week_key, monday, i - 1))

\* weekly_summary(ref) with base the instant that ref (or the clock) gives.
\* averages holds the sums: an average reaches a threshold exactly when
\* the sum reaches six times the threshold.
weekly_summary(d, base) ==
    LET game_today == to_game_date(base)
        monday     == monday_of(game_today)
        week_key   == iso_week_key(game_today)
    IN  [ week |-> week_key,
          days |-> {k[2] : k \in {k \in Range(DictKeys(d.points)) : k[1] = week_key}},
          eligibles_by_day |->
              [dk \in monday..(monday + 5) |->
                  DayEligibles(PerDayMerge(DictGet(d.points, <<week_key, dk>>, <<>>), <<>>))],
          sums |-> WeekSums(d, week_key, monday, 6) ]

AverageEligibles(summary, threshold) ==
    LET hit == SelectSeq(summary.sums, LAMBDA it : it.v >= 6 * threshold)
    IN  [i \in DOMAIN hit |-> hit[i].k]

\* ------------------------------------------------------------------------
\* Weekly draw logs (utils/csv_utils.py) and the DrawEngine
\* (commands/draw.py, scheduler.py).  A draw row keeps the fields of its
\* detail text apart: for, passenger, backups.
\* ------------------------------------------------------------------------
append_sorteo(sorteos, dt, kind, for, passenger, backups) ==
    Append(sorteos, [file |-> week_csv_names(dt), fecha |-> DateOf(dt),
                     semana |-> iso_week_key(DateOf(dt)), tipo |-> kind,
                     for |-> for, passenger |-> passenger, backups |-> backups])

\* The rows of the draw log named by the Sunday `file`
FileRows(sorteos, file) == SelectSeq(sorteos, LAMBDA r : r.file = file)

RECURSIVE Dedup(_)
\* list(set(xs)): one of each, in some order that the shuffle then replaces
Dedup(xs) ==
    IF xs = <<>> THEN <<>>
    ELSE LET rest == Dedup(SubSeq(xs, 1, Len(xs) - 1))
         IN  IF xs[Len(xs)] \in Range(rest) THEN rest ELSE Append(rest, xs[Len(xs)])

_exclude_train_drivers(d, pool) ==
    LET roster  == get_train_config(d).drivers
        drivers == {Lower(roster[i]) : i \in {j \in DOMAIN roster : Strip(roster[j]) # <<>>}}
    IN  SelectSeq(pool, LAMBDA p : Lower(p) \notin drivers)

\* target_week_monday_real is the instant draw_w hands in
_exclude_last_week_W_passengers(sorteos, target_week_monday_real) ==
    LET prev_sunday_real == DateOf(target_week_monday_real - DaySecs)
        rows == FileRows(sorteos, week_csv_names(AtTime(prev_sunday_real, 0, 0)))
    IN  {Strip(rows[i].passenger) :
            i \in {j \in DOMAIN rows : rows[j].tipo = "W" /\ Strip(rows[j].passenger) # <<>>}}

\* random.shuffle: every order for a short list; for a longer one the
\* rotations of the list, a subset of the orders the shuffle can give.
MaxFullShuffle == 3
Rotate(xs, k) == [i \in DOMAIN xs |-> xs[((i + k - 1) % Len(xs)) + 1]]
Shuffles(xs) ==
    IF Len(xs) <= MaxFullShuffle
    THEN {[i \in DOMAIN xs |-> xs[p[i]]] :
             p \in {q \in [DOMAIN xs -> DOMAIN xs] : \A i, j \in DOMAIN xs : q[i] = q[j] => i = j}}
    ELSE {Rotate(xs, k) : k \in 0..(Len(xs) - 1)}

\* eligibles[1:3]
Backups(order) == SubSeq(order, 2, Min2(3, Len(order)))

EligiblesOn(summary, day_key) ==
    IF day_key \in DOMAIN summary.eligibles_by_day THEN summary.eligibles_by_day[day_key] ELSE <<>>

\* ---- draw_d ----
\* The list draw_d shuffles
DrawDEligibles(d, t) ==
    _exclude_train_drivers(d, Dedup(EligiblesOn(weekly_summary(d, t), to_game_date(t) - 1)))

DrawDAppliesFor(base_gd) == IF isoweekday(base_gd) = 6 THEN base_gd + 2 ELSE base_gd + 1

\* order is the shuffle's outcome on DrawDEligibles
draw_d(w, t, order) ==
    LET base_gd == to_game_date(t) - 1
    IN  IF isoweekday(base_gd) = 7 \/ order = <<>> THEN w
        ELSE [w EXCEPT !.sorteos = append_sorteo(@, from_game_date(base_gd), "D",
                                       DrawDAppliesFor(base_gd), order[1], Backups(order))]

\* ---- draw_w ----
\* <<ref_gd_for_summary, target_week_start>> on game Sunday and game Monday
DrawWRefs(t) ==
    LET current_gd == to_game_date(t)
    IN  IF isoweekday(current_gd) = 7
        THEN <<current_gd, from_game_date(current_gd) + 7 * DaySecs>>
        ELSE <<current_gd - 1, from_game_date(current_gd)>>

\* The command without its weekday test
DrawWAccepts_any_day(t) == TRUE

DrawWAccepts(t) == isoweekday(to_game_date(t)) \in {1, 7}

\* The pool after the train roster is taken out
DrawWPoolBefore(d, t) ==
    _exclude_train_drivers(d,
        AverageEligibles(weekly_summary(d, RefDateInstant(DrawWRefs(t)[1])), THRESHOLD))

\* The list draw_w shuffles (<<>> where the command answers "not enough")
DrawWPool(w, t) ==
    LET before == DrawWPoolBefore(w.doc, t)
        exclude_prev_w == _exclude_last_week_W_passengers(w.sorteos, DrawWRefs(t)[2])
        after == SelectSeq(before, LAMBDA n : n \notin exclude_prev_w)
    IN  IF ~DrawWAccepts(t) \/ Len(before) < 5 \/ Len(after) < 5 THEN <<>> ELSE after

RECURSIVE DrawWPicks(_, _, _, _)
\* The five picks: [raised, picks]; available.pop(0) on an empty list raises
DrawWPicks(available, days, i, picks) ==
    IF i > 5 THEN [raised |-> FALSE, picks |-> picks]
    ELSE IF available = <<>> THEN [raised |-> TRUE, picks |-> picks]
    ELSE LET backups == SubSeq(available, 2, Min2(3, Len(available)))
             rest    == SubSeq(available, Len(backups) + 2, Len(available))
         IN  DrawWPicks(rest, days, i + 1,
                 Append(picks, [day |-> days[i], passenger |-> available[1], backups |-> backups]))

RECURSIVE WritePicks(_, _, _)
WritePicks(sorteos, dt, picks) ==
    IF picks = <<>> THEN sorteos
    ELSE WritePicks(append_sorteo(sorteos, dt, "W", DateOf(Head(picks).day),
                                  Head(picks).passenger, Head(picks).backups),
                    dt, Tail(picks))

\* order is the shuffle's outcome on DrawWPool
draw_w(w, t, order) ==
    LET res == DrawWPicks(order, game_week_monfri(DrawWRefs(t)[2]), 1, <<>>)
    IN  IF order = <<>> \/ res.raised THEN w
        ELSE [w EXCEPT !.sorteos = WritePicks(@, t, res.picks)]

\* ---- automatic draws ----
\* A check for weekly records that never finds one
_has_weekly_draw_written_never(sorteos, week_dt) == FALSE

_has_weekly_draw_written(sorteos, week_dt) ==
    \E r \in Range(FileRows(sorteos, week_csv_names(week_dt))) : r.tipo = "W"

_has_full_week_data(d, week_dt, t) ==
    LET s == weekly_summary(d, t)
        days == game_week_monsat(week_dt)
    IN  /\ Cardinality(s.days) >= 6
        /\ \A i \in DOMAIN days : DateOf(days[i]) \in s.days
        /\ Len(AverageEligibles(s, 7200000)) >= 5

_ingest_quiet_period_ok(w, t, minutes) ==
    IF w.mtime = -1 THEN TRUE ELSE t - w.mtime >= minutes * MinuteSecs

\* The list of an automatic daily draw that steps back to Saturday where
\* the day before is a Sunday
AutoDrawDEligibles_back_to_saturday(w, gd_today, t) ==
    LET base == IF isoweekday(gd_today - 1) = 7 THEN gd_today - 2 ELSE gd_today - 1
        week_dt == from_game_date(base)
        rows == FileRows(w.sorteos, week_csv_names(week_dt))
    IN  IF \E r \in Range(rows) : r.tipo = "D" /\ r.for = gd_today THEN <<>>
        ELSE Dedup(EligiblesOn(weekly_summary(w.doc, week_dt), base))

\* The list _maybe_auto_draw_d shuffles (<<>> where it returns early)
AutoDrawDEligibles(w, gd_today, t) ==
    LET base == gd_today - 1
        week_dt == from_game_date(base)
        rows == FileRows(w.sorteos, week_csv_names(week_dt))
    IN  IF isoweekday(base) = 7 THEN <<>>
        ELSE IF _has_weekly_draw_written(w.sorteos, week_dt) THEN <<>>
        ELSE IF \E r \in Range(rows) : r.tipo = "D" /\ r.for = gd_today THEN <<>>
        ELSE Dedup(EligiblesOn(weekly_summary(w.doc, t), base))

_maybe_auto_draw_d(w, gd_today, t, order) ==
    IF order = <<>> THEN w
    ELSE [w EXCEPT !.sorteos = append_sorteo(@, from_game_date(gd_today - 1), "D",
                                   gd_today, order[1], Backups(order))]

\* The list _maybe_auto_draw_w shuffles (<<>> where it returns early)
AutoDrawWPool(w, gd_sun, t) ==
    LET week_dt == from_game_date(gd_sun)
        averages == AverageEligibles(weekly_summary(w.doc, t), 7200000)
    IN  IF _has_weekly_draw_written(w.sorteos, week_dt) THEN <<>>
        ELSE IF ~_has_full_week_data(w.doc, week_dt, t) THEN <<>>
        ELSE IF Len(averages) < 5 THEN <<>>
        ELSE averages

RECURSIVE AutoDrawWLoop(_, _, _, _, _)
AutoDrawWLoop(sorteos, week_dt, pool, days, i) ==
    IF i > 5 \/ pool = <<>> THEN sorteos
    ELSE LET bks  == SubSeq(pool, 2, Min2(3, Len(pool)))
             rest == SubSeq(pool, Len(bks) + 2, Len(pool))
         IN  AutoDrawWLoop(append_sorteo(sorteos, week_dt, "W", DateOf(days[i]), pool[1], bks),
                           week_dt, rest, days, i + 1)

_maybe_auto_draw_w(w, gd_sun, t, order) ==
    LET week_dt == from_game_date(gd_sun)
    IN  IF order = <<>> THEN w
        ELSE [w EXCEPT !.sorteos = AutoDrawWLoop(@, week_dt, order, game_week_monsat(week_dt), 1)]

\* ---- one run of the minute loop ----
HHMMOf(t) == <<SecOfDay(t) \div HourSecs, (SecOfDay(t) % HourSecs) \div MinuteSecs>>

VsReminder(w, t, net) ==
    LET key == <<"VS", to_game_date(t), "2345">>
    IN  IF has_fired(w.doc, key) THEN w
        ELSE LET sent == send_plain(w, key, <<>>, net)
             IN  IF sent.aborted THEN sent ELSE Marked(sent, key, t)

\* The draws of the 02:30 run; orderD and orderW are the shuffles' outcomes
TickDraws(w, t, orderD, orderW) ==
    LET gd == to_game_date(t)
        afterD == IF AUTO_DRAW_D /\ _ingest_quiet_period_ok(w, t, INGEST_QUIET_MINUTES)
                  THEN _maybe_auto_draw_d(w, gd, t, orderD) ELSE w
    IN  IF isoweekday(gd) = 7 /\ AUTO_DRAW_W /\ _ingest_quiet_period_ok(afterD, t, INGEST_QUIET_MINUTES)
        THEN _maybe_auto_draw_w(afterD, gd, t, orderW) ELSE afterD

tick_loop(w, t, chOk, net, orderD, orderW) ==
    IF ~chOk THEN w
    ELSE LET gd == to_game_date(t)
             s1 == IF HHMMOf(t) = <<1, 45>> /\ AUTO_VS_REMINDER THEN VsReminder(w, t, net) ELSE w
             s2 == IF s1.aborted \/ HHMMOf(t) # <<2, 30>> THEN s1 ELSE TickDraws(s1, t, orderD, orderW)
             s3 == _handle_event(s2, t, "MG", net)
             s4 == _handle_event(s3, t, "ZS", net)
         IN  IF s4.aborted \/ HHMMOf(t) # <<2, 0>> \/ isoweekday(gd) # 7 THEN s4
             ELSE _maybe_send_week_calendar(s4, t, net)

\* reset_all with confirm = "YES": data.json becomes {}
reset_all(w, t) == [w EXCEPT !.doc = EmptyDoc, !.mtime = t]

\* reset: the "weeks" section it looks for is never written, nothing changes
reset(w, t) == w

\* ---- weekend_roles (commands/weekend_roles.py) ----
\* A weekend row keeps the fields of its detail text apart, as the other
\* rows do, with the driver and the driver's backup next to them.
append_weekend(sorteos, dt, for, driver, driver_backup, passenger, backups) ==
    Append(sorteos, [file |-> week_csv_names(dt), fecha |-> DateOf(dt),
                     semana |-> iso_week_key(DateOf(dt)), tipo |-> "weekend",
                     for |-> for, passenger |-> passenger, backups |-> backups,
                     driver |-> driver, driver_backup |-> driver_backup])

\* The items [k, v] of the closed week whose average reaches the threshold
WeekendAverages(d, t) ==
    LET cur_gd == to_game_date(t)
        monday_game == cur_gd - (isoweekday(cur_gd) - 1)
        prev_sunday_real == from_game_date(monday_game - 1)
    IN  SelectSeq(weekly_summary(d, prev_sunday_real).sums, LAMBDA it : it.v >= 6 * THRESHOLD)

RECURSIVE InsertByAverage(_, _)
\* sort(key = average, reverse = True) is stable: e goes after its equals
InsertByAverage(sorted, e) ==
    IF sorted = <<>> THEN <<e>>
    ELSE IF Head(sorted).v >= e.v THEN <<Head(sorted)>> \o InsertByAverage(Tail(sorted), e)
    ELSE <<e>> \o sorted

RECURSIVE SortByAverage(_, _)
SortByAverage(items, acc) ==
    IF items = <<>> THEN acc
    ELSE SortByAverage(Tail(items), InsertByAverage(acc, Head(items)))

\* The Saturday and the Sunday the roles are drawn for
WeekendTargets(cur_gd) ==
    LET offset(wd) == IF wd - isoweekday(cur_gd) <= 0
                      THEN wd - isoweekday(cur_gd) + 7 ELSE wd - isoweekday(cur_gd)
    IN  <<cur_gd + offset(6), cur_gd + offset(7)>>

LowerAll(names) == {Lower(names[i]) : i \in DOMAIN names}

\* A driver pool that forgets who was used earlier in the weekend
DriverPool_day_only(top10, used_lower_day, used_across_weekend) ==
    SelectSeq(top10, LAMBDA n : Lower(n) \notin used_lower_day)

DriverPool(top10, used_lower_day, used_across_weekend) ==
    SelectSeq(top10, LAMBDA n : Lower(n) \notin used_lower_day
                                /\ Lower(n) \notin used_across_weekend)

\* The assignments one day of the loop can make: [ok, passenger, backups,
\* driver, driver_backup], one for every outcome of the two shuffles;
\* ok is FALSE where the command answers that candidates are missing.
WeekendDay(avg_pool_all, top10, used_across_weekend) ==
    LET passenger_candidates ==
            SelectSeq(avg_pool_all, LAMBDA n : Lower(n) \notin used_across_weekend)
        failed == [ok |-> FALSE, passenger |-> <<>>, backups |-> <<>>,
                   driver |-> <<>>, driver_backup |-> <<>>]
        drivers(order) ==
            LET passenger == order[1]
                passenger_backups == SubSeq(order, 2, Min2(3, Len(order)))
                used_lower_day == {Lower(passenger)} \cup LowerAll(passenger_backups)
                driver_pool == DriverPool(top10, used_lower_day, used_across_weekend)
            IN  IF Len(driver_pool) < 2 THEN {failed}
                ELSE {[ok |-> TRUE, passenger |-> passenger, backups |-> passenger_backups,
                       driver |-> dp[1], driver_backup |-> dp[2]] : dp \in Shuffles(driver_pool)}
    IN  IF passenger_candidates = <<>> THEN {failed}
        ELSE UNION {drivers(order) : order \in Shuffles(passenger_candidates)}

UsedBy(pick) ==
    {Lower(pick.passenger), Lower(pick.driver), Lower(pick.driver_backup)}
        \cup LowerAll(pick.backups)

WriteWeekend(sorteos, target_gd, pick) ==
    append_weekend(sorteos, from_game_date(monday_of(target_gd) + 6), target_gd,
                   pick.driver, pick.driver_backup, pick.passenger, pick.backups)

\* The outcomes of the command: [sorteos, short]; short is TRUE where it
\* ends with the answer that candidates are missing.
weekend_roles(w, t) ==
    LET averages == SortByAverage(WeekendAverages(w.doc, t), <<>>)
        top10 == [i \in 1..Min2(10, Len(averages)) |-> averages[i].k]
        avg_pool_all == [i \in DOMAIN averages |-> averages[i].k]
        targets == WeekendTargets(to_game_date(t))
        second(first) ==
            LET written == WriteWeekend(w.sorteos, targets[1], first)
            IN  {IF pick.ok
                 THEN [sorteos |-> WriteWeekend(written, targets[2], pick), short |-> FALSE]
                 ELSE [sorteos |-> written, short |-> TRUE]
                   : pick \in WeekendDay(avg_pool_all, top10, UsedBy(first))}
    IN  IF Len(averages) < 4 THEN {[sorteos |-> w.sorteos, short |-> TRUE]}
        ELSE UNION {IF first.ok THEN second(first)
                    ELSE {[sorteos |-> w.sorteos, short |-> TRUE]}
                      : first \in WeekendDay(avg_pool_all, top10, {})}

\* ---- the detail text of a draw row ----
\* yyyymmdd_from_date / strftime("%Y%m%d"): eight digits, one-to-one with
\* the date (here the day number, zero-padded)
Pow10(n) == IF n = 0 THEN 1 ELSE IF n = 1 THEN 10 ELSE IF n = 2 THEN 100
            ELSE IF n = 3 THEN 1000 ELSE IF n = 4 THEN 10000 ELSE IF n = 5 THEN 100000
            ELSE IF n = 6 THEN 1000000 ELSE 10000000
yyyymmdd_from_date(d) == [i \in 1..8 |-> Digits[((d \div Pow10(8 - i)) % 10) + 1]]

RECURSIVE Join(_, _)
\* sep.join(parts)
Join(parts, sep) ==
    IF parts = <<>> THEN <<>>
    ELSE IF Len(parts) = 1 THEN parts[1]
    ELSE parts[1] \o sep \o Join(Tail(parts), sep)

TxtFor == <<"|", "f", "o", "r", ":">>
TxtPassenger == <<"|", "p", "a", "s", "s", "e", "n", "g", "e", "r", ":">>
TxtBackups == <<"|", "b", "a", "c", "k", "u", "p", "s", ":">>
TxtDriver == <<"|", "d", "r", "i", "v", "e", "r", ":">>
TxtDriverBackup == <<"|", "d", "r", "i", "v", "e", "r", "_", "b", "a", "c", "k", "u", "p", ":">>
TxtPassengerBackups == <<"|", "p", "a", "s", "s", "e", "n", "g", "e", "r", "_",
                         "b", "a", "c", "k", "u", "p", "s", ":">>
TxtWeekend == <<"w", "e", "e", "k", "e", "n", "d">>

\* The detalle column of a row, as draw_d, draw_w, the automatic draws and
\* weekend_roles format it
Detail(r) ==
    IF r.tipo = "weekend"
    THEN TxtWeekend \o TxtFor \o yyyymmdd_from_date(r.for)
           \o TxtDriver \o r.driver \o TxtDriverBackup \o r.driver_backup
           \o TxtPassenger \o r.passenger \o TxtPassengerBackups \o Join(r.backups, <<",">>)
    ELSE <<r.tipo>> \o TxtFor \o yyyymmdd_from_date(r.for)
           \o TxtPassenger \o r.passenger \o TxtBackups \o Join(r.backups, <<",">>)

\* pat in text
Contains(text, pat) ==
    \E i \in 0..(Len(text) - Len(pat)) : SubSeq(text, i + 1, i + Len(pat)) = pat

\* ---- redo (commands/redo.py) ----
\* A log file exists once a row was appended to it
FileExists(sorteos, file) == \E r \in Range(sorteos) : r.file = file

\* redo_d: yyyymmdd is the text the command is given.  int() of a text that
\* is not all digits raises and nothing is written.  The rows come back
\* from the csv reader with the texts append_sorteo wrote.
redo_d(w, yyyymmdd) ==
    IF Len(yyyymmdd) # 8 \/ ~IsDigitText(yyyymmdd) THEN w
    ELSE LET dt == IntOf(yyyymmdd)
             path == week_csv_names(from_game_date(dt))
             removed(row) == row.tipo = "D"
                             /\ Contains(Detail(row), <<"f", "o", "r", ":">> \o yyyymmdd)
         IN  IF ~FileExists(w.sorteos, path) THEN w
             ELSE [w EXCEPT !.sorteos = SelectSeq(@, LAMBDA row : row.file # path \/ ~removed(row))]

\* The path glob hands to redo_w for the log of a week
SorteosPath(file) ==
    <<"d", "a", "t", "a", "/", "V", "s">> \o yyyymmdd_from_date(file)
        \o <<"_", "s", "o", "r", "t", "e", "o", "s", ".", "c", "s", "v">>

\* re.compile(r"Vs(\d{8})_sorteos\\.csv$").search(p): "Vs", eight digits,
\* "_sorteos", a backslash, any one character and "csv" at the end
RedoWPatternSearch(p) ==
    \E i \in 0..(Len(p) - 23) :
        /\ i + 23 = Len(p)
        /\ SubSeq(p, i + 1, i + 2) = <<"V", "s">>
        /\ IsDigitText(SubSeq(p, i + 3, i + 10))
        /\ SubSeq(p, i + 11, i + 18) = <<"_", "s", "o", "r", "t", "e", "o", "s">>
        /\ p[i + 19] = "\\"
        /\ SubSeq(p, i + 21, i + 23) = <<"c", "s", "v">>

\* redo_w: iso_week is the week key the command is given (YYYY-WW)
redo_w(w, iso_week) ==
    LET searched == {r.file : r \in {x \in Range(w.sorteos) : RedoWPatternSearch(SorteosPath(x.file))}}
        removed(row) == row.semana = iso_week /\ row.tipo = "W"
    IN  [w EXCEPT !.sorteos = SelectSeq(@, LAMBDA row : row.file \notin searched \/ ~removed(row))]

\* ---- the mg and zs commands ----
\* strptime's %H%M on an HHmm text: <<>> where it raises, else <<hh, mm>>.
\* %H takes two digits when they make an hour, else one.
StrptimeHM(hhmm) ==
    IF Len(hhmm) \notin {2, 3, 4} \/ ~IsDigitText(hhmm) THEN <<>>
    ELSE LET two == IntOf(SubSeq(hhmm, 1, 2))
             hLen == IF two < 24 /\ Len(hhmm) > 2 THEN 2 ELSE 1
             hh == IntOf(SubSeq(hhmm, 1, hLen))
             mm == IntOf(SubSeq(hhmm, hLen + 1, Len(hhmm)))
         IN  IF Len(hhmm) - hLen \in {1, 2} /\ mm < 60 THEN <<hh, mm>> ELSE <<>>

\* The body shared by mg and zs: [ok, doc]
ScheduleCmd(d, kind, repeat_days, date_yyyymmdd, time_hhmm, weekend_hhmm, t) ==
    LET hm == StrptimeHM(time_hhmm)
    IN  IF hm = <<>> \/ _parse_hhmm(time_hhmm) = <<>>
           \/ (weekend_hhmm # NoHHMM /\ _parse_hhmm(weekend_hhmm) = <<>>)
        THEN [ok |-> FALSE, doc |-> d]
        ELSE [ok |-> TRUE,
              doc |-> set_schedule(d, kind, _server_dt_to_utc(AtTime(date_yyyymmdd, hm[1], hm[2])),
                                   time_hhmm, repeat_days, weekend_hhmm, t)]

mg(d, date_yyyymmdd, time_hhmm, weekend_hhmm, t) ==
    ScheduleCmd(d, "MG", 2, date_yyyymmdd, time_hhmm, weekend_hhmm, t)

zs(d, date_yyyymmdd, time_hhmm, weekend_hhmm, t) ==
    ScheduleCmd(d, "ZS", 3, date_yyyymmdd, time_hhmm, weekend_hhmm, t)

\* ------------------------------------------------------------------------
\* The state machine
\* ------------------------------------------------------------------------
VARIABLES
    now,        \* the wall clock, in seconds
    alive,      \* the minute loop is running
    lastTick,   \* the instant of the loop's last run since it was started (-1: none)
    doc,        \* data.json
    mtime,      \* the instant data.json was last written (-1: no file)
    sorteos,    \* the rows of the weekly draw logs
    registros,  \* the rows of the weekly registration logs
    outbox,     \* the messages delivered to the announcement channel
    marked,     \* history: the keys mark_fired was called with
    regLog,     \* history: the registrations register_points accepted
    last,       \* history: the last operation and what it worked on
    left,       \* how many more disturbances, registrations, draws and writes the run may take
    disk,       \* data.json and data.json.tmp as files: the write in progress, if any
    posted,     \* the TrainScheduler's fields: the days its posts were last made for
    sending     \* the send a run of the minute loop is waiting on, if any

vars == <<now, alive, lastTick, doc, mtime, sorteos, registros, outbox, marked, regLog, last, left, disk, posted, sending>>

\* No write in progress: data.json holds the document doc (or does not
\* exist) and there is no data.json.tmp.  While torn, data.json has been
\* opened for writing and holds no text yet.
DiskIdle == [writer |-> "none", tmp |-> <<>>, torn |-> FALSE]

\* No run of the minute loop is suspended at a send
NotSending == [at |-> "idle", key |-> <<>>, read |-> <<>>, kinds |-> <<>>, todo |-> <<>>]

\* TrainScheduler.__init__: no post made yet, no day pending (NoDate is None)
NoDate == -1
\* ran: the instant of the loop's last run
NotPosted == [_posted_today_0100 |-> NoDate, _posted_today_1430 |-> NoDate,
              _pending_day |-> NoDate, _posted_weekly_for_monday |-> NoDate, ran |-> -1]

\* Bounds
TicksDisturb == 2

NoOp == [op |-> "none", ok |-> FALSE, name |-> <<>>, amount |-> 0, day |-> NoDay,
         target_gd |-> 0, week_key |-> 0, date_key |-> 0,
         matched |-> <<>>, display |-> <<>>,
         pool |-> <<>>, poolD |-> <<>>, raised |-> FALSE, short |-> FALSE,
         before |-> <<>>, arg |-> <<>>, net |-> "none", from |-> 0, sent |-> 0, at |-> 0]

\* An allowance: restarts, failing ticks and schedule commands together
\* (disturb), accepted registrations, manual draws, other writes
Allow(disturb, regs, draws, writes) ==
    [disturb |-> disturb, regs |-> regs, draws |-> draws, writes |-> writes]

World == [doc |-> doc, mtime |-> mtime, sorteos |-> sorteos, outbox |-> outbox, aborted |-> FALSE]

\* The state after construction at the instant t0: no data.json, no logs
InitAt(t0, running, allowance) ==
    /\ now = t0
    /\ alive = running
    /\ lastTick = -1
    /\ doc = EmptyDoc
    /\ mtime = -1
    /\ sorteos = <<>>
    /\ registros = <<>>
    /\ outbox = <<>>
    /\ marked = {}
    /\ regLog = <<>>
    /\ last = NoOp
    /\ left = allowance
    /\ disk = DiskIdle
    /\ posted = NotPosted
    /\ sending = NotSending

\* The clock moves to the next instant of the grid.  While the loop runs it
\* has run at the present instant first: the grid's instants are the
\* minutes of the loop at which some step of it can act.
Advance(grid) ==
    /\ ~alive \/ lastTick = now
    /\ \E t \in grid : t > now
    /\ now' = CHOOSE t \in grid : t > now /\ \A u \in grid : u > now => t <= u
    /\ UNCHANGED <<alive, lastTick, doc, mtime, sorteos, registros, outbox, marked, regLog, last, left, disk, posted, sending>>

Nets == {"ok", "forbidden_mention", "fail"}

\* The lists the 02:30 run's draws shuffle
TickLists(w, t, chOk) ==
    LET gd == to_game_date(t)
        drawing == chOk /\ HHMMOf(t) = <<2, 30>>
    IN  [listD |-> IF drawing THEN AutoDrawDEligibles(w, gd, t) ELSE <<>>,
         listW |-> IF drawing /\ isoweekday(gd) = 7 THEN AutoDrawWPool(w, gd, t) ELSE <<>>]

\* One run of tick_loop
Tick ==
    /\ alive
    /\ lastTick # now
    /\ \E chOk \in BOOLEAN, net \in Nets :
        /\ ~chOk => net = "ok"
        /\ (chOk /\ net = "ok") \/ left.disturb > 0
        /\ \E lists \in {TickLists(World, now, chOk)} :
             \E orderD \in Shuffles(lists.listD), orderW \in Shuffles(lists.listW) :
               \E w2 \in {tick_loop(World, now, chOk, net, orderD, orderW)} :
                     /\ doc' = w2.doc
                     /\ mtime' = w2.mtime
                     /\ sorteos' = w2.sorteos
                     /\ outbox' = w2.outbox
                     /\ alive' = ~w2.aborted
                     /\ marked' = marked \cup w2.doc.fired_marks
                     /\ last' = [NoOp EXCEPT !.at = now, !.op = "tick", !.ok = chOk /\ ~w2.aborted,
                                             !.pool = lists.listW, !.poolD = lists.listD,
                                             !.net = net, !.raised = w2.aborted,
                                             !.from = Len(sorteos), !.sent = Len(outbox)]
                     /\ left' = [left EXCEPT !.disturb = IF chOk /\ net = "ok" THEN @ ELSE @ - 1]
    /\ lastTick' = now
    /\ UNCHANGED <<now, registros, regLog, disk, posted, sending>>

\* The process comes up again: on_ready starts the loop, which runs at once
Restart ==
    /\ left.disturb > 0
    /\ alive' = TRUE
    /\ lastTick' = -1
    /\ left' = [left EXCEPT !.disturb = @ - 1]
    /\ last' = [NoOp EXCEPT !.at = now, !.op = "restart", !.from = Len(sorteos), !.sent = Len(outbox)]
    /\ UNCHANGED <<now, doc, mtime, sorteos, registros, outbox, marked, regLog, disk, posted, sending>>

\* /mg and /zs
Schedule(kind, date_yyyymmdd, time_hhmm, weekend_hhmm) ==
    /\ left.disturb > 0
    /\ \E res \in {IF kind = "MG" THEN mg(doc, date_yyyymmdd, time_hhmm, weekend_hhmm, now)
                   ELSE zs(doc, date_yyyymmdd, time_hhmm, weekend_hhmm, now)} :
           /\ res.ok
           /\ doc' = res.doc
    /\ mtime' = now
    /\ left' = [left EXCEPT !.disturb = @ - 1]
    /\ last' = [NoOp EXCEPT !.at = now, !.op = "schedule", !.ok = TRUE, !.from = Len(sorteos), !.sent = Len(outbox)]
    /\ UNCHANGED <<now, alive, lastTick, sorteos, registros, outbox, marked, regLog, disk, posted, sending>>

\* /points
Points(name, amount, day) ==
    /\ left.regs > 0
    /\ \E res \in {points(doc, now, name, amount, day)} :
           /\ doc' = res.doc
           /\ mtime' = IF res.ok THEN now ELSE mtime
           /\ registros' = IF res.ok
                            THEN Append(registros, RegistroRow(res.date_key, res.display, amount))
                            ELSE registros
           /\ regLog' = IF res.ok
                         THEN Append(regLog, [week_key |-> res.week_key, date_key |-> res.date_key,
                                              name |-> Strip(name), amount |-> amount])
                         ELSE regLog
           /\ last' = [NoOp EXCEPT !.at = now, !.op = "points", !.ok = res.ok, !.name = Strip(name),
                                   !.amount = amount, !.day = day, !.target_gd = res.target_gd,
                                   !.week_key = res.week_key, !.date_key = res.date_key,
                                   !.display = res.display,
                                   !.matched = IF res.ok
                                               THEN ExistingDisplay(DictGet(doc.points, <<res.week_key, res.date_key>>, <<>>),
                                                                    Strip(name), <<>>)
                                               ELSE <<>>,
                                   !.from = Len(sorteos), !.sent = Len(outbox)]
           /\ left' = [left EXCEPT !.regs = IF res.ok THEN @ - 1 ELSE @]
    /\ UNCHANGED <<now, alive, lastTick, sorteos, outbox, marked, disk, posted, sending>>

\* /draw D
DrawD ==
    /\ left.draws > 0
    /\ \E list \in {IF isoweekday(to_game_date(now) - 1) = 7 THEN <<>> ELSE DrawDEligibles(doc, now)} :
           \E order \in Shuffles(list) :
             /\ sorteos' = draw_d(World, now, order).sorteos
             /\ last' = [NoOp EXCEPT !.at = now, !.op = "draw_d", !.ok = order # <<>>, !.poolD = list,
                                     !.short = isoweekday(to_game_date(now) - 1) # 7 /\ list = <<>>,
                                     !.from = Len(sorteos), !.sent = Len(outbox)]
    /\ left' = [left EXCEPT !.draws = @ - 1]
    /\ UNCHANGED <<now, alive, lastTick, doc, mtime, registros, outbox, marked, regLog, disk, posted, sending>>

\* /draw W
DrawW ==
    /\ left.draws > 0
    /\ \E list \in {DrawWPool(World, now)} :
           \E order \in Shuffles(list) :
             /\ sorteos' = draw_w(World, now, order).sorteos
             /\ last' = [NoOp EXCEPT !.at = now, !.op = "draw_w",
                                     !.raised = order # <<>> /\ DrawWPicks(order, game_week_monfri(DrawWRefs(now)[2]), 1, <<>>).raised,
                                     !.ok = order # <<>>, !.pool = list,
                                     !.short = DrawWAccepts(now) /\ list = <<>>,
                                     !.from = Len(sorteos), !.sent = Len(outbox)]
    /\ left' = [left EXCEPT !.draws = @ - 1]
    /\ UNCHANGED <<now, alive, lastTick, doc, mtime, registros, outbox, marked, regLog, disk, posted, sending>>

\* /train_set_drivers
TrainSetDrivers(drivers) ==
    /\ left.writes > 0
    /\ doc' = set_train_drivers(doc, drivers)
    /\ mtime' = now
    /\ left' = [left EXCEPT !.writes = @ - 1]
    /\ last' = [NoOp EXCEPT !.at = now, !.op = "train_set_drivers", !.ok = TRUE, !.from = Len(sorteos), !.sent = Len(outbox)]
    /\ UNCHANGED <<now, alive, lastTick, sorteos, registros, outbox, marked, regLog, disk, posted, sending>>

\* /auto
Auto(feature, mode) ==
    /\ left.writes > 0
    /\ doc' = set_auto_toggle(doc, feature, IF mode = "on" THEN "True" ELSE "False")
    /\ mtime' = now
    /\ left' = [left EXCEPT !.writes = @ - 1]
    /\ last' = [NoOp EXCEPT !.at = now, !.op = "auto", !.ok = TRUE, !.from = Len(sorteos), !.sent = Len(outbox)]
    /\ UNCHANGED <<now, alive, lastTick, sorteos, registros, outbox, marked, regLog, disk, posted, sending>>

\* /reset
Reset ==
    /\ left.writes > 0
    /\ \E w2 \in {reset(World, now)} : doc' = w2.doc /\ mtime' = w2.mtime
    /\ left' = [left EXCEPT !.writes = @ - 1]
    /\ last' = [NoOp EXCEPT !.at = now, !.op = "reset", !.ok = TRUE, !.from = Len(sorteos), !.sent = Len(outbox)]
    /\ UNCHANGED <<now, alive, lastTick, sorteos, registros, outbox, marked, regLog, disk, posted, sending>>

\* /reset_all confirm:YES
ResetAll ==
    /\ left.writes > 0
    /\ \E w2 \in {reset_all(World, now)} : doc' = w2.doc /\ mtime' = w2.mtime
    /\ left' = [left EXCEPT !.writes = @ - 1]
    /\ last' = [NoOp EXCEPT !.at = now, !.op = "reset_all", !.ok = TRUE, !.from = Len(sorteos), !.sent = Len(outbox)]
    /\ UNCHANGED <<now, alive, lastTick, sorteos, registros, outbox, marked, regLog, disk, posted, sending>>

\* /redo_d
RedoD(yyyymmdd) ==
    /\ left.writes > 0
    /\ sorteos' = redo_d(World, yyyymmdd).sorteos
    /\ last' = [NoOp EXCEPT !.at = now, !.op = "redo_d", !.ok = TRUE, !.arg = yyyymmdd,
                            !.before = sorteos, !.from = Len(sorteos), !.sent = Len(outbox)]
    /\ left' = [left EXCEPT !.writes = @ - 1]
    /\ UNCHANGED <<now, alive, lastTick, doc, mtime, registros, outbox, marked, regLog, disk, posted, sending>>

\* /redo_w
RedoW(iso_week) ==
    /\ left.writes > 0
    /\ sorteos' = redo_w(World, iso_week).sorteos
    /\ last' = [NoOp EXCEPT !.at = now, !.op = "redo_w", !.ok = TRUE, !.week_key = iso_week,
                            !.before = sorteos, !.from = Len(sorteos), !.sent = Len(outbox)]
    /\ left' = [left EXCEPT !.writes = @ - 1]
    /\ UNCHANGED <<now, alive, lastTick, doc, mtime, registros, outbox, marked, regLog, disk, posted, sending>>

\* /weekend_roles
WeekendRoles ==
    /\ left.draws > 0
    /\ \E res \in weekend_roles(World, now) :
           /\ sorteos' = res.sorteos
           /\ last' = [NoOp EXCEPT !.at = now, !.op = "weekend_roles", !.ok = ~res.short,
                                   !.short = res.short,
                                   !.from = Len(sorteos), !.sent = Len(outbox)]
    /\ left' = [left EXCEPT !.draws = @ - 1]
    /\ UNCHANGED <<now, alive, lastTick, doc, mtime, registros, outbox, marked, regLog, disk, posted, sending>>

\* ------------------------------------------------------------------------
\* SpecTicks: the minute loop, restarts and schedule commands over a
\* Saturday and Sunday.  Day 12 is a Saturday.  MG was scheduled the week
\* before (on day 5, first occurrence day 6, 10:00 server = 12:00 UTC), so
\* it occurs on days 12 and 14, and the week's digest lists it.
\* ------------------------------------------------------------------------
Clock(d, hh, mm) == AtTime(d, hh, mm) + 30

T1000 == <<"1", "0", "0", "0">>
T1005 == <<"1", "0", "0", "5">>

TicksGrid ==
    { Clock(12, 11, 49), Clock(12, 11, 50), Clock(12, 11, 54), Clock(12, 11, 55),
      Clock(13, 1, 45),  Clock(13, 2, 0),   Clock(13, 2, 30),
      Clock(13, 11, 59), Clock(13, 12, 0) }

ServerToday == DateOf(_utc_to_server_dt(now))

\* Saturday 11:49:30 with last week's MG schedule in the store
InitScheduled(allowance) ==
    /\ now = Clock(12, 11, 49)
    /\ alive = TRUE
    /\ lastTick = -1
    /\ doc = mg(EmptyDoc, 6, T1000, NoHHMM, Clock(5, 12, 0)).doc
    /\ mtime = Clock(5, 12, 0)
    /\ sorteos = <<>>
    /\ registros = <<>>
    /\ outbox = <<>>
    /\ marked = {}
    /\ regLog = <<>>
    /\ last = NoOp
    /\ left = allowance
    /\ disk = DiskIdle
    /\ posted = NotPosted
    /\ sending = NotSending

InitTicks == InitScheduled(Allow(TicksDisturb, 0, 0, 0))

NextTicks ==
    \/ Advance(TicksGrid)
    \/ Tick
    \/ Restart
    \/ \E kind \in {"MG", "ZS"}, hhmm \in {T1000, T1005} :
          Schedule(kind, ServerToday, hhmm, NoHHMM)

SpecTicks == InitTicks /\ [][NextTicks]_vars

\* C1: over any sequence of ticks, restarts between ticks included, no
\* fired-mark key (VS reminder of a game day, MG/ZS reminder of a kind,
\* occurrence date and label, digest of a week) is delivered more than once.
C1_DeliveredAtMostOnce ==
    \A i, j \in DOMAIN outbox : outbox[i].key = outbox[j].key => i = j

\* A tick ran inside the window of a reminder that an earlier tick had
\* delivered, and delivered nothing.
C1_SecondTickInWindow ==
    /\ last.op = "tick" /\ last.ok /\ lastTick = now
    /\ last.sent = Len(outbox)
    /\ \E e \in Range(outbox), kind \in {"MG", "ZS"}, i \in DOMAIN LeadTimes :
          /\ e.key = <<kind, e.key[2], LeadTimes[i].label>>
          /\ get_schedule(doc, kind) # NoSchedule
          /\ Abs(now - (FirerEventDt(get_schedule(doc, kind)[1], e.key[2]).utc
                         - LeadTimes[i].delta)) <= 59

\* ------------------------------------------------------------------------
\* SpecStore: every writer of data.json next to the minute loop.
\* ------------------------------------------------------------------------
StoreGrid == { Clock(12, 11, 49), Clock(12, 11, 50), Clock(13, 1, 45) }
StoreDisturb == 1
StoreRegs == 1
StoreWrites == 1

Zed == <<"Z", "e", "d">>
TenDrivers == [i \in 1..10 |-> <<"T", Digits[i]>>]

NextStore ==
    \/ Advance(StoreGrid)
    \/ Tick
    \/ Restart
    \/ Schedule("ZS", ServerToday, T1000, NoHHMM)
    \/ Points(Zed, THRESHOLD, NoDay)
    \/ TrainSetDrivers(TenDrivers)
    \/ \E mode \in {"on", "off"} : Auto("AUTO_VS_REMINDER", mode)
    \/ Reset
    \/ ResetAll

InitStore == InitScheduled(Allow(StoreDisturb, StoreRegs, 0, StoreWrites))

SpecStore == InitStore /\ [][NextStore]_vars

\* C2: once mark_fired(k) has been called, has_fired(k) is true in every
\* later state, whatever operations, restarts and reloads come after.
C2_MarksAreForever == \A k \in marked : has_fired(doc, k)

\* ------------------------------------------------------------------------
\* SpecSchedule: the mg and zs commands and the clock, from an empty store
\* on Friday noon (day 11); the minute loop is not started.
\* ------------------------------------------------------------------------
T2230 == <<"2", "2", "3", "0">>
T930  == <<"9", "3", "0">>

ScheduleGrid == { Clock(11, 12, 0), Clock(12, 12, 0), Clock(13, 12, 0) }

ScheduleCommands == 2

InitSchedule == InitAt(Clock(11, 12, 0), FALSE, Allow(ScheduleCommands, 0, 0, 0))

NextSchedule ==
    \/ Advance(ScheduleGrid)
    \/ \E kind \in {"MG", "ZS"}, date \in {ServerToday, ServerToday + 1},
           hhmm \in {T1000, T2230, T930}, wk \in {NoHHMM, T1005} :
          Schedule(kind, date, hhmm, wk)

SpecSchedule == InitSchedule /\ [][NextSchedule]_vars

\* How many upcoming occurrences of a kind are compared
OccurrencesCompared == 3

\* C3: for every schedule, kind and day, the instant _handle_event times its
\* reminders by is the instant _next_occurrences computes for that day, with
\* the stored repeat interval, the weekday/weekend time, the same UTC
\* instant for every server time and the same anti-overlap adjustment.
C3_FirerMatchesCalculator ==
    \A kind \in {"MG", "ZS"} :
        get_schedule(doc, kind) # NoSchedule =>
            LET cfg  == get_schedule(doc, kind)[1]
                occs == _next_occurrences(doc, kind, OccurrencesCompared, now)
            IN  /\ cfg.repeat_days = EVENT_LABELS[kind]
                /\ \A i \in DOMAIN occs :
                      LET ev == FirerEventDt(cfg, occs[i].date)
                      IN  /\ FirerOccursOn(cfg, kind, occs[i].date)
                          /\ ev.ok /\ ~ev.raises
                          /\ ev.utc = occs[i].utc

\* ------------------------------------------------------------------------
\* SpecPoints: the points command on every day of a week, from an empty
\* store on Sunday noon (day 13); day 14 01:00 is still game Sunday.
\* ------------------------------------------------------------------------
PointsGrid == {Clock(d, 12, 0) : d \in 13..19} \cup {Clock(14, 1, 0)}
PointsRegs == 2
DayKeys == {"mon", "tue", "wed", "thu", "fri", "sat"}

InitPoints == InitAt(Clock(13, 12, 0), FALSE, Allow(0, PointsRegs, 0, 0))

NextPoints ==
    \/ Advance(PointsGrid)
    \/ \E amount \in {THRESHOLD, 1}, day \in {NoDay} \cup DayKeys : Points(Zed, amount, day)

SpecPoints == InitPoints /\ [][NextPoints]_vars

\* The target game day the command is to compute at the instant t
TargetDay(t, day) ==
    LET gd == to_game_date(t)
    IN  IF day = NoDay THEN (IF isoweekday(gd - 1) = 7 THEN gd - 2 ELSE gd - 1)
        ELSE monday_of(IF isoweekday(gd) = 1 THEN gd - 7 ELSE gd) + _DAY_OFFSETS[day]

\* C4: an accepted points registration is stored under exactly the target
\* game day of the command, in that day's ISO week, for every target
\* weekday Monday to Saturday.
C4_StoredUnderTargetDay ==
    (last.op = "points" /\ last.ok) =>
        LET target == TargetDay(last.at, last.day)
            stored == DictGet(doc.points, <<iso_week_key(target), target>>, <<>>)
        IN  /\ last.target_gd = target
            /\ last.date_key = target
            /\ last.week_key = iso_week_key(target)
            /\ \E e \in Range(stored) : e.name = last.display /\ e.points = last.amount

\* ------------------------------------------------------------------------
\* SpecTotals: registrations of near-identical names on Thursday noon
\* (day 17) for the day before (no day given) and for the Tuesday.
\* ------------------------------------------------------------------------
ChiknLobo   == <<"C", "h", "i", "k", "n", "L", "o", "b", "o">>
ChikenLobo  == <<"C", "h", "i", "k", "e", "n", "L", "o", "b", "o">>
ChickenLobo == <<"C", "h", "i", "c", "k", "e", "n", "L", "o", "b", "o">>
Padded(name) == <<" ">> \o name \o <<" ">>

TotalsRegs == 3

InitTotals == InitAt(Clock(17, 12, 0), FALSE, Allow(0, TotalsRegs, 0, 0))

NextTotals ==
    \E name \in {Padded(ChiknLobo), ChikenLobo, ChickenLobo}, amount \in {THRESHOLD, 1},
       day \in {NoDay, "tue"} :
      Points(name, amount, day)

SpecTotals == InitTotals /\ [][NextTotals]_vars

\* The accepted registrations of a day whose name matches `name`
MatchingRegs(bucket, name) ==
    {r \in DOMAIN regLog : /\ <<regLog[r].week_key, regLog[r].date_key>> = bucket
                            /\ _names_equivalent(regLog[r].name, name)}

SetMax(S) == CHOOSE x \in S : \A y \in S : y <= x

BetterVariant(x, y) ==
    \/ AlphaCount(x) > AlphaCount(y)
    \/ AlphaCount(x) = AlphaCount(y) /\ Len(x) > Len(y)

\* C6: when a registered name matches an entry of the day, the resulting
\* entry is named by whichever of the two variants has more alphabetic
\* characters (ties: the longer), whichever was registered first.
C6_BetterVariantShown ==
    (last.op = "points" /\ last.ok /\ last.matched # <<>>) =>
        /\ last.display \in {last.matched, _collapse_spaces(last.name)}
        /\ ~BetterVariant(last.matched, last.display)
        /\ ~BetterVariant(_collapse_spaces(last.name), last.display)

\* ------------------------------------------------------------------------
\* SpecDaily: registrations on a Wednesday (day 9), the train roster, the
\* 02:30 run of the Thursday and the manual daily draw.
\* ------------------------------------------------------------------------
Player(k) == <<UpperChars[k]>>

DailyGrid == { Clock(9, 12, 0), Clock(10, 2, 30), Clock(10, 12, 0) }
DailyRegs == 3
DailyDraws == 1
DailyWrites == 1
DailyPlayers == 3

\* The ten names of /train_set_drivers, the first of them a player
RosterWith(name) == [i \in 1..10 |-> IF i = 1 THEN name ELSE <<"T", Digits[i]>>]

InitDaily == InitAt(Clock(9, 12, 0), TRUE, Allow(0, DailyRegs, DailyDraws, DailyWrites))

NextDaily ==
    \/ Advance(DailyGrid)
    \/ Tick
    \/ \E k \in 1..DailyPlayers, amount \in {THRESHOLD, THRESHOLD - 1} : Points(Player(k), amount, "wed")
    \/ TrainSetDrivers(RosterWith(Player(DailyPlayers)))
    \/ DrawD

SpecDaily == InitDaily /\ [][NextDaily]_vars

\* The names of the train roster as the draws compare them
RosterNames(d) ==
    LET roster == get_train_config(d).drivers
    IN  {Lower(roster[i]) : i \in {j \in DOMAIN roster : Strip(roster[j]) # <<>>}}

\* The rows the last operation appended to the draw logs
NewRows == SubSeq(sorteos, last.from + 1, Len(sorteos))

\* C10: every daily draw record, written by the manual draw or by the
\* 02:30 run, names as passenger and backups only players who reached the
\* day threshold on the game day before the draw's game day and who are
\* not in the train roster.
C10_DailyDrawNames ==
    last.op \in {"draw_d", "tick"} =>
        \A i \in DOMAIN NewRows :
            NewRows[i].tipo = "D" =>
                \A n \in {NewRows[i].passenger} \cup Range(NewRows[i].backups) :
                    /\ n \in Range(EligiblesOn(weekly_summary(doc, last.at), to_game_date(last.at) - 1))
                    /\ Lower(n) \notin RosterNames(doc)

\* The manual daily draw wrote a record while a player of the roster was eligible
C10_ManualDrawLeavesDriverOut ==
    /\ last.op = "draw_d"
    /\ NewRows # <<>>
    /\ \E n \in Range(EligiblesOn(weekly_summary(doc, last.at), to_game_date(last.at) - 1)) :
          Lower(n) \in RosterNames(doc)

\* ------------------------------------------------------------------------
\* SpecWeekly: two game weeks (days 7..13 and 14..20).  On each Saturday
\* the players register, one after the other, a total that makes them
\* average-eligible; the weekly draw is asked for on the Sundays and on the
\* Mondays that follow.
\* ------------------------------------------------------------------------
WeeklyGrid == { Clock(12, 12, 0), Clock(13, 12, 0), Clock(14, 12, 0),
                Clock(19, 12, 0), Clock(20, 12, 0), Clock(21, 12, 0) }
WeeklyPlayers == 13
WeeklyRegs == 26
WeeklyDraws == 2

\* A day total that carries the week's average to the threshold
WeekAmount == 6 * THRESHOLD

RegsThisWeek ==
    Cardinality({i \in DOMAIN regLog : regLog[i].week_key = iso_week_key(to_game_date(now))})

InitWeekly == InitAt(Clock(12, 12, 0), FALSE, Allow(0, WeeklyRegs, WeeklyDraws, 0))

NextWeekly ==
    \/ Advance(WeeklyGrid)
    \/ /\ isoweekday(to_game_date(now)) = 6
       /\ RegsThisWeek < WeeklyPlayers
       /\ Points(Player(RegsThisWeek + 1), WeekAmount, NoDay)
    \/ DrawW

SpecWeekly == InitWeekly /\ [][NextWeekly]_vars

\* The weekly records the last operation wrote
NewW == SelectSeq(NewRows, LAMBDA r : r.tipo = "W")

\* C7: whenever at least five players remain eligible after all
\* exclusions, a weekly draw (the command or the Sunday run) writes exactly
\* five W records, one for each target day Monday to Friday, with five
\* passengers that are pairwise distinct.
C7_FiveRecordsFiveDays ==
    (last.op \in {"draw_w", "tick"} /\ Len(last.pool) >= 5) =>
        /\ Len(NewW) = 5
        /\ \E m \in {NewW[i].for : i \in DOMAIN NewW} :
              /\ isoweekday(m) = 1
              /\ \A i \in DOMAIN NewW : NewW[i].for = m + (i - 1)
        /\ \A i, j \in DOMAIN NewW : NewW[i].passenger = NewW[j].passenger => i = j

\* A weekly draw with thirteen or more in the pool wrote its five records
C7_DrawWritten ==
    /\ last.op = "draw_w"
    /\ Len(last.pool) >= 5
    /\ Len(NewW) = 5

\* C8: no player written as passenger of a W record by the weekly draw for
\* week k is written as passenger of a W record by the weekly draw for
\* week k+1, whichever permitted day each draw was run on.
C8_NoPassengerTwoWeeksRunning ==
    \A i, j \in DOMAIN sorteos :
        (/\ sorteos[i].tipo = "W"
         /\ sorteos[j].tipo = "W"
         /\ iso_week_key(sorteos[j].for) = iso_week_key(sorteos[i].for) + 1)
        => sorteos[i].passenger # sorteos[j].passenger

\* ------------------------------------------------------------------------
\* SpecAuto: the Sunday 02:30 run over a ledger that holds totals for
\* every day Monday to Saturday of the closing week (days 7..12), as
\* _has_full_week_data asks for.  The ledger is built by register_points
\* taken at noon of each day; the run is followed by the manual draws of
\* the Sunday (day 13) and the Monday (day 14).
\* ------------------------------------------------------------------------
AutoGrid == { Clock(13, 2, 30), Clock(13, 12, 0), Clock(14, 12, 0) }
AutoSmallPool == 5
AutoLargePool == 13
AutoDraws == 1
AutoPools == {AutoSmallPool, AutoSmallPool + 1, AutoLargePool}

RECURSIVE Registered(_, _)
\* register_points(name, amount) called at the instant `at`, entry after entry
Registered(acc, entries) ==
    IF entries = <<>> THEN acc
    ELSE LET e == Head(entries)
             reg == register_points(acc.doc, e.name, e.amount, NoDay, e.at)
         IN  IF ~reg.ok THEN Registered(acc, Tail(entries))
             ELSE Registered(
                 [doc |-> reg.doc,
                  registros |-> Append(acc.registros, RegistroRow(reg.date_key, reg.display, e.amount)),
                  regLog |-> Append(acc.regLog, [week_key |-> reg.week_key, date_key |-> reg.date_key,
                                                 name |-> e.name, amount |-> e.amount])],
                 Tail(entries))

\* n players with the week's worth on the Monday, and the first of them
\* with the threshold on each day after it up to the Saturday
FullWeek(monday, n) ==
    Registered([doc |-> EmptyDoc, registros |-> <<>>, regLog |-> <<>>],
               [i \in 1..(n + 5) |->
                   IF i <= n
                   THEN [name |-> Player(i), amount |-> WeekAmount, at |-> from_game_date(monday)]
                   ELSE [name |-> Player(1), amount |-> THRESHOLD, at |-> from_game_date(monday + (i - n))]])

InitAuto ==
    \E n \in AutoPools :
        \E seed \in {FullWeek(7, n)} :
            /\ now = Clock(13, 2, 30)
            /\ alive = TRUE
            /\ lastTick = -1
            /\ doc = seed.doc
            /\ mtime = from_game_date(12)
            /\ sorteos = <<>>
            /\ registros = seed.registros
            /\ outbox = <<>>
            /\ marked = {}
            /\ regLog = seed.regLog
            /\ last = NoOp
            /\ left = Allow(0, 0, AutoDraws, 0)
            /\ disk = DiskIdle
            /\ posted = NotPosted
            /\ sending = NotSending

NextAuto ==
    \/ Advance(AutoGrid)
    \/ Tick
    \/ DrawW

SpecAuto == InitAuto /\ [][NextAuto]_vars

RolesGrid == { Clock(12, 12, 0), Clock(13, 12, 0), Clock(14, 12, 0) }
RolesPlayers == 11
RolesDraws == 1

InitRoles == InitAt(Clock(12, 12, 0), FALSE, Allow(0, RolesPlayers, RolesDraws, 0))

NextRoles ==
    \/ Advance(RolesGrid)
    \/ /\ to_game_date(now) = 12
       /\ Points(Player(RegsThisWeek + 1), WeekAmount + RegsThisWeek + 1, NoDay)
    \/ DrawD
    \/ DrawW
    \/ WeekendRoles

SpecRoles == InitRoles /\ [][NextRoles]_vars

\* The weekend records the last operation wrote
NewWeekend == SelectSeq(NewRows, LAMBDA r : r.tipo = "weekend")

DayCrew(r) == {Lower(r.driver), Lower(r.driver_backup)}
DayRiders(r) == {Lower(r.passenger)} \cup LowerAll(r.backups)

\* C11: in the records one weekend_roles run writes, the driver and the
\* driver's backup of a day are none of that day's passenger and passenger
\* backups, and no name, compared without regard to case, is in both the
\* Saturday and the Sunday record.
C11_WeekendNamesApart ==
    last.op = "weekend_roles" =>
        /\ \A i \in DOMAIN NewWeekend : DayCrew(NewWeekend[i]) \cap DayRiders(NewWeekend[i]) = {}
        /\ \A i, j \in DOMAIN NewWeekend :
              i # j => (DayCrew(NewWeekend[i]) \cup DayRiders(NewWeekend[i]))
                         \cap (DayCrew(NewWeekend[j]) \cup DayRiders(NewWeekend[j])) = {}

\* A run wrote both records, each with two passenger backups, out of a pool
\* larger than the ten the drivers come from
C11_BothDaysWritten ==
    /\ last.op = "weekend_roles"
    /\ Len(NewWeekend) = 2
    /\ NewWeekend[1].for = 19 /\ NewWeekend[2].for = 20
    /\ \A i \in 1..2 : Len(NewWeekend[i].backups) = 2
    /\ Len(WeekendAverages(doc, now)) > 10

\* C12: a draw operation (daily, weekly, weekend roles) that ends with the
\* answer that too few eligible candidates are available has appended no
\* draw record; weekend_roles writes both of its records or neither.
C12_ShortDrawWritesNothing ==
    /\ (last.op \in {"draw_d", "draw_w", "weekend_roles"} /\ last.short) => NewRows = <<>>
    /\ last.op = "weekend_roles" => Len(NewWeekend) \in {0, 2}

\* The weekly draw answered that too few are eligible and wrote nothing
C12_WeeklyDrawShort ==
    /\ last.op = "draw_w" /\ last.short
    /\ last.at = Clock(13, 12, 0)
    /\ regLog # <<>>
    /\ NewRows = <<>>

\* ------------------------------------------------------------------------
\* SpecRedo: the draw logs of the weekend that closes game week 1 and of
\* the Monday after it, and the redo commands on them.  Thirteen players
\* register on Saturday; on Sunday one more registers Saturday's total,
\* under a plain name or under a name that reads like a detail field.
\* The draws and the redo commands run once Saturday's registrations are
\* complete (none, the first five, or all), and the weekend roles are drawn
\* in the runs with five.
\* ------------------------------------------------------------------------
RedoGrid == { Clock(12, 12, 0), Clock(13, 12, 0), Clock(14, 12, 0) }
RedoPlayers == 13
RedoFew == 5
RedoDraws == 2
RedoRuns == 1

\* A player name that holds the text "for:" and the stamp of day 12
ForName == <<"f", "o", "r", ":">> \o yyyymmdd_from_date(12)

InitRedo == InitAt(Clock(12, 12, 0), FALSE, Allow(0, RedoPlayers + 1, RedoDraws, RedoRuns))

\* Saturday's registrations are complete: none, the first five or all
RedoSettled == to_game_date(now) # 12 \/ RegsThisWeek \in {0, RedoFew, RedoPlayers}

NextRedo ==
    \/ RedoSettled /\ Advance(RedoGrid)
    \/ /\ to_game_date(now) = 12 /\ RegsThisWeek < RedoPlayers
       /\ Points(Player(RegsThisWeek + 1), WeekAmount, NoDay)
    \/ /\ to_game_date(now) = 13 /\ RegsThisWeek = RedoPlayers
       /\ \E name \in {Zed, ForName} : Points(name, THRESHOLD, "sat")
    \/ RedoSettled /\ DrawD
    \/ RedoSettled /\ DrawW
    \/ /\ Len(regLog) <= RedoFew
       /\ WeekendRoles
    \/ RedoSettled /\ \E d \in {12, 19} : RedoD(yyyymmdd_from_date(d))
    \/ RedoSettled /\ RedoD(<<"1", "2">>)
    \/ RedoSettled /\ RedoW(1)

SpecRedo == InitRedo /\ [][NextRedo]_vars

\* C13: after redo_w(w) no W record whose week column is w is left in any
\* weekly draw log, and every other record (D rows, weekend rows, W rows of
\* other weeks) is still there.
C13_RedoWClearsWeek ==
    last.op = "redo_w" =>
        sorteos = SelectSeq(last.before, LAMBDA r : ~(r.tipo = "W" /\ r.semana = last.week_key))

\* redo_w ran on logs that hold W records of the week it was given
C13_RedoWOnDrawnWeek ==
    /\ last.op = "redo_w"
    /\ \E r \in Range(last.before) : r.tipo = "W" /\ r.semana = last.week_key
    /\ \E r \in Range(last.before) : r.tipo # "W"

\* The log redo_d rewrites for the date text it is given
RedoDLog(yyyymmdd) == week_csv_names(from_game_date(IntOf(yyyymmdd)))

\* C14: redo_d(date) removes from the weekly draw log it works on exactly
\* the D rows that target the date, and leaves every other row (W rows,
\* weekend rows, D rows of other dates, the rows of other logs) in place,
\* unchanged and in order.
C14_RedoDRemovesExactly ==
    (last.op = "redo_d" /\ Len(last.arg) = 8) =>
        sorteos = SelectSeq(last.before,
                      LAMBDA r : ~(r.file = RedoDLog(last.arg) /\ r.tipo = "D"
                                   /\ r.for = IntOf(last.arg)))

\* redo_d took the D rows of its date, and nothing else, out of a log that
\* holds other rows as well
C14_RedoDKeepsOthers ==
    /\ last.op = "redo_d" /\ Len(last.arg) = 8
    /\ Len(sorteos) < Len(last.before)
    /\ \E r \in Range(sorteos) : r.file = RedoDLog(last.arg)
    /\ \A r \in Range(sorteos) : r.tipo = "D" => r.for # IntOf(last.arg)
    /\ \A r \in Range(last.before) : r.for # IntOf(last.arg) => r \in Range(sorteos)

\* ------------------------------------------------------------------------
\* SpecMidweek: a weekly draw made by hand for game week 2 (days 14..20)
\* and the 02:30 run of the Wednesday of that week.  Thirteen players
\* register on Saturday day 12, the weekly draw runs on Sunday or on the
\* grace Monday, and on Tuesday players register Tuesday's total.
\* ------------------------------------------------------------------------
MidweekGrid == { Clock(12, 12, 0), Clock(13, 12, 0), Clock(14, 12, 0), Clock(15, 12, 0),
                 Clock(16, 2, 30), Clock(16, 12, 0) }
MidweekPlayers == 13
MidweekLate == 2
MidweekDraws == 1

InitMidweek == InitAt(Clock(12, 12, 0), TRUE, Allow(0, MidweekPlayers + MidweekLate, MidweekDraws, 0))

NextMidweek ==
    \/ /\ to_game_date(now) # 12 \/ RegsThisWeek \in {0, MidweekPlayers}
       /\ Advance(MidweekGrid)
    \/ Tick
    \/ /\ to_game_date(now) = 12 /\ RegsThisWeek < MidweekPlayers
       /\ Points(Player(RegsThisWeek + 1), WeekAmount, NoDay)
    \/ /\ to_game_date(now) = 15 /\ RegsThisWeek < MidweekLate
       /\ \E amount \in {THRESHOLD, THRESHOLD - 1} :
             Points(Player(RegsThisWeek + 1), amount, "tue")
    \/ DrawW

SpecMidweek == InitMidweek /\ [][NextMidweek]_vars

\* The W records in the logs before the last operation that target the
\* game week of the day gd
WeeklyDrawFor(gd) ==
    {i \in 1..last.from : sorteos[i].tipo = "W" /\ monday_of(sorteos[i].for) = monday_of(gd)}

\* C15: the automatic daily draw writes no D record on a game day of a
\* week for which a weekly draw exists (a W record that targets the week),
\* whether that draw was made by hand on game Sunday, by hand on the grace
\* Monday, or by the scheduler.
C15_NoDailyDrawInDrawnWeek ==
    (last.op = "tick" /\ WeeklyDrawFor(to_game_date(last.at)) # {}) =>
        \A r \in Range(NewRows) : r.tipo # "D"

\* The 02:30 run had eligibles of the day before and a weekly draw of the
\* grace Monday in the logs, and wrote nothing
C15_SkippedAfterMondayDraw ==
    /\ last.op = "tick" /\ last.at = Clock(16, 2, 30)
    /\ WeeklyDrawFor(16) # {}
    /\ EligiblesOn(weekly_summary(doc, now), 15) # <<>>
    /\ NewRows = <<>>

\* ------------------------------------------------------------------------
\* SpecSchedule, the occurrence calculator.  The statements below compute
\* the days and instants of a schedule from its stored fields alone.
\* ------------------------------------------------------------------------
FirstDay(cfg) == DateOf(cfg.first_utc - 2 * HourSecs)

\* The schedule has an occurrence on the server day
OccursOn(cfg, date) == \E k \in 0..date : date = FirstDay(cfg) + k * cfg.repeat_days

\* The server time of day that applies on the day, and its UTC instant
TimeOn(cfg, date) ==
    _parse_hhmm(IF isoweekday(date) \in {6, 7} /\ cfg.weekend_hhmm # NoHHMM
                THEN cfg.weekend_hhmm ELSE cfg.hhmm_server)

InstantOn(cfg, date) == AtTime(date, TimeOn(cfg, date)[1], TimeOn(cfg, date)[2]) + 2 * HourSecs

MgClashesOn(date) ==
    /\ get_schedule(doc, "MG") # NoSchedule
    /\ OccursOn(get_schedule(doc, "MG")[1], date)
    /\ InstantOn(get_schedule(doc, "MG")[1], date) = InstantOn(get_schedule(doc, "ZS")[1], date)

\* C16: every ZS occurrence _next_occurrences reports is its own instant
\* plus exactly 30 minutes, tagged adjusted, when MG has an occurrence on
\* the same server day at the same instant, and its own instant, untagged,
\* when the instants differ or MG has no occurrence that day.
C16_ZsMovesBehindMg ==
    get_schedule(doc, "ZS") # NoSchedule =>
        LET occs == _next_occurrences(doc, "ZS", OccurrencesCompared, now)
        IN  \A i \in DOMAIN occs :
               LET raw == InstantOn(get_schedule(doc, "ZS")[1], occs[i].date)
               IN  IF MgClashesOn(occs[i].date)
                   THEN occs[i].utc = raw + 30 * MinuteSecs /\ occs[i].adjusted
                   ELSE occs[i].utc = raw /\ ~occs[i].adjusted

\* Both kinds are scheduled, and the upcoming ZS occurrences hold one that
\* was moved behind MG, one on a day MG has at another instant and one on a
\* day MG does not have.
C16_OneMovedOneNot ==
    /\ get_schedule(doc, "ZS") # NoSchedule
    /\ get_schedule(doc, "MG") # NoSchedule
    /\ LET occs == _next_occurrences(doc, "ZS", OccurrencesCompared, now)
           mgc  == get_schedule(doc, "MG")[1]
       IN  /\ \E i \in DOMAIN occs : occs[i].adjusted /\ MgClashesOn(occs[i].date)
           /\ \E i \in DOMAIN occs : ~occs[i].adjusted /\ ~OccursOn(mgc, occs[i].date)
           /\ \E i \in DOMAIN occs : ~occs[i].adjusted /\ OccursOn(mgc, occs[i].date)

T2500 == <<"2", "5", "0", "0">>

StoredGrid == { Clock(11, 12, 0), Clock(12, 12, 0), Clock(13, 12, 0) }

StoredWrites == 2

\* How many days past today the statement looks for a day without a time
LookAhead == 7

InitStored == InitAt(Clock(11, 12, 0), FALSE, Allow(0, 0, 0, StoredWrites))

\* storage.set_schedule, called with the first occurrence at server noon
StoreSchedule(kind, first_date, hhmm_server, repeat_days, weekend_hhmm) ==
    /\ left.writes > 0
    /\ doc' = set_schedule(doc, kind, _server_dt_to_utc(AtTime(first_date, 12, 0)),
                           hhmm_server, repeat_days, weekend_hhmm, now)
    /\ mtime' = now
    /\ left' = [left EXCEPT !.writes = @ - 1]
    /\ last' = [NoOp EXCEPT !.at = now, !.op = "store", !.ok = TRUE, !.from = Len(sorteos), !.sent = Len(outbox)]
    /\ UNCHANGED <<now, alive, lastTick, sorteos, registros, outbox, marked, regLog, disk, posted, sending>>

NextStored ==
    \/ Advance(StoredGrid)
    \/ \E kind \in {"MG", "ZS"}, hhmm \in {T2230, T2500, NoHHMM},
          repeat \in {0, 2, 3}, wk \in {NoHHMM, T1005, T2500} :
          StoreSchedule(kind, ServerToday, hhmm, repeat, wk)

SpecStored == InitStored /\ [][NextStored]_vars

\* The days of the schedule with a time that parses and an occurrence that
\* may be due at or after now (a ZS occurrence may be due 30 minutes late)
DueDays(cfg) ==
    { e \in 0..(ServerToday + LookAhead) :
        /\ OccursOn(cfg, e)
        /\ TimeOn(cfg, e) # <<>>
        /\ InstantOn(cfg, e) + 30 * MinuteSecs >= now }

\* The calculator, having found fewer than the occurrences asked for,
\* comes to a day of the schedule, today or later, without a valid time
MeetsDayWithoutTime(cfg) ==
    \E d \in ServerToday..(ServerToday + LookAhead) :
        /\ OccursOn(cfg, d)
        /\ TimeOn(cfg, d) = <<>>
        /\ Cardinality({e \in DueDays(cfg) : e < d}) < OccurrencesCompared

\* C18: when the interval of a stored schedule is 0 or less, or the time
\* that applies on a day the calculator comes to (the weekday time, or the
\* weekend override on a Saturday or Sunday) is missing or does not parse,
\* _next_occurrences returns the empty list, never the occurrences found
\* before that day.
C18_InvalidGivesEmpty ==
    \A kind \in {"MG", "ZS"} :
        get_schedule(doc, kind) # NoSchedule =>
            LET cfg == get_schedule(doc, kind)[1]
            IN  (cfg.repeat_days <= 0 \/ MeetsDayWithoutTime(cfg))
                    => _next_occurrences(doc, kind, OccurrencesCompared, now) = <<>>

\* A stored weekday time that parses with a weekend override that does
\* not, and the calculator answers with the weekday occurrences before the
\* weekend
C18_PartialList ==
    \E kind \in {"MG", "ZS"} :
        /\ get_schedule(doc, kind) # NoSchedule
        /\ LET cfg  == get_schedule(doc, kind)[1]
               occs == _next_occurrences(doc, kind, OccurrencesCompared, now)
           IN  /\ cfg.repeat_days > 0
               /\ cfg.hhmm_server = T2230 /\ cfg.weekend_hhmm = T2500
               /\ MeetsDayWithoutTime(cfg)
               /\ occs # <<>> /\ Len(occs) < OccurrencesCompared

\* ------------------------------------------------------------------------
\* SpecTicks, the notifier's failures.  last.net is the notifier's answer
\* during the last run and last.raised tells that an exception left it.
\* ------------------------------------------------------------------------

\* C19: after a run of the minute loop in which a trigger's action failed,
\* the loop is still running, so that the later triggers and the following
\* ticks are served.
C19_LoopSurvivesFailure ==
    (last.op = "tick" /\ last.raised) => alive

\* The notifier raised on the VS reminder of 01:45: nothing was delivered
\* or marked, and the loop has stopped.
C19_VsReminderRaised ==
    /\ last.op = "tick" /\ last.raised /\ last.net = "fail"
    /\ HHMMOf(last.at) = <<1, 45>>
    /\ <<"VS", to_game_date(last.at), "2345">> \notin doc.fired_marks
    /\ Len(outbox) = last.sent
    /\ ~alive

\* The urgent reminders (10m, 5m) that are due at instant t
UrgentDue(t) ==
    { key \in {"MG", "ZS"} \X (to_game_date(t) - 1 .. to_game_date(t) + 7) \X {"10m", "5m"} :
        /\ get_schedule(doc, key[1]) # NoSchedule
        /\ LET cfg == get_schedule(doc, key[1])[1]
               ev  == FirerEventDt(cfg, key[2])
           IN  /\ FirerOccursOn(cfg, key[1], key[2])
               /\ ev.ok /\ ~ev.raises
               /\ \E i \in DOMAIN LeadTimes :
                     /\ LeadTimes[i].label = key[3]
                     /\ Abs(t - (ev.utc - LeadTimes[i].delta)) <= 59 }

\* The places of the outbox that hold the key
DeliveriesOf(key) == {i \in DOMAIN outbox : outbox[i].key = key}

AtomicWrites == 3

InitAtomic == InitAt(Clock(13, 12, 0), FALSE, Allow(0, 0, 0, AtomicWrites))

\* The documents the writers of storage.py hand to _save
SavedByWriters ==
    { set_auto_toggle(doc, f, v) : f \in {"AUTO_DRAW_D", "AUTO_VS_REMINDER"}, v \in {"True", "False"} }
      \cup { mark_fired(doc, <<"VS", to_game_date(now), "2345">>),
             set_train_drivers(doc, TenDrivers),
             set_schedule(doc, "MG", _server_dt_to_utc(AtTime(ServerToday, 10, 0)), T1000, 2, NoHHMM, now),
             register_points(doc, Zed, THRESHOLD, NoDay, now).doc }

\* _save, first half: json.dump into data.json.tmp
SaveWriteTmp(state) ==
    /\ left.writes > 0
    /\ disk.writer = "none"
    /\ disk' = [writer |-> "save", tmp |-> <<state>>, torn |-> FALSE]
    /\ left' = [left EXCEPT !.writes = @ - 1]
    /\ last' = [NoOp EXCEPT !.at = now, !.op = "save_tmp", !.ok = TRUE, !.from = Len(sorteos), !.sent = Len(outbox)]
    /\ UNCHANGED <<now, alive, lastTick, doc, mtime, sorteos, registros, outbox, marked, regLog, posted, sending>>

\* _save, second half: os.replace(tmp, DATA_JSON)
SaveReplace ==
    /\ disk.writer = "save"
    /\ doc' = disk.tmp[1]
    /\ mtime' = now
    /\ disk' = DiskIdle
    /\ last' = [NoOp EXCEPT !.at = now, !.op = "save_replace", !.ok = TRUE, !.from = Len(sorteos), !.sent = Len(outbox)]
    /\ UNCHANGED <<now, alive, lastTick, sorteos, registros, outbox, marked, regLog, left, posted, sending>>

\* reset_all, first half: open(DATA_JSON, "w")
ResetAllOpen ==
    /\ left.writes > 0
    /\ disk.writer = "none"
    /\ doc' = EmptyDoc
    /\ mtime' = now
    /\ disk' = [writer |-> "reset_all", tmp |-> <<>>, torn |-> TRUE]
    /\ left' = [left EXCEPT !.writes = @ - 1]
    /\ last' = [NoOp EXCEPT !.at = now, !.op = "reset_all_open", !.ok = TRUE, !.from = Len(sorteos), !.sent = Len(outbox)]
    /\ UNCHANGED <<now, alive, lastTick, sorteos, registros, outbox, marked, regLog, posted, sending>>

\* reset_all, second half: json.dump({}, f) and the close
ResetAllDump ==
    /\ disk.writer = "reset_all"
    /\ \E w2 \in {reset_all(World, now)} : doc' = w2.doc /\ mtime' = w2.mtime
    /\ disk' = DiskIdle
    /\ last' = [NoOp EXCEPT !.at = now, !.op = "reset_all", !.ok = TRUE, !.from = Len(sorteos), !.sent = Len(outbox)]
    /\ UNCHANGED <<now, alive, lastTick, sorteos, registros, outbox, marked, regLog, left, posted, sending>>

\* A reader opens data.json and parses it; ok tells that the text was a
\* complete document
ReadFile ==
    /\ last.op # "read"
    /\ last' = [NoOp EXCEPT !.at = now, !.op = "read", !.ok = ~disk.torn,
                            !.arg = <<disk.writer>>, !.from = Len(sorteos), !.sent = Len(outbox)]
    /\ UNCHANGED <<now, alive, lastTick, doc, mtime, sorteos, registros, outbox, marked, regLog, left, disk, posted, sending>>

NextAtomic ==
    \/ \E state \in SavedByWriters : SaveWriteTmp(state)
    \/ SaveReplace
    \/ ResetAllOpen
    \/ ResetAllDump
    \/ ReadFile

SpecAtomic == InitAtomic /\ [][NextAtomic]_vars

\* C21: every write replaces data.json through data.json.tmp and a rename,
\* so the file is never without a complete document and a reader that
\* opens it during a write reads a complete document, the old or the new.
C21_ReaderSeesWholeDocument ==
    /\ ~disk.torn
    /\ last.op = "read" => last.ok

\* A reader opened data.json between the two halves of _save and read the
\* complete old document, with the new one waiting in data.json.tmp
C21_ReadDuringSave ==
    /\ last.op = "read" /\ last.ok /\ last.arg = <<"save">>
    /\ disk.writer = "save" /\ disk.tmp # <<doc>>
    /\ doc # EmptyDoc

\* ------------------------------------------------------------------------
\* SpecToggles: the auto command next to the minute loop, from an empty
\* store on Wednesday noon (day 9), the loop running.  The loop runs at
\* 01:45 (the VS reminder) and at 02:30 (the daily draw) of the next day.
\* ------------------------------------------------------------------------
TogglesGrid == { Clock(9, 12, 0), Clock(10, 1, 45), Clock(10, 2, 30) }
TogglesRegs == 1
TogglesWrites == 2

InitToggles == InitAt(Clock(9, 12, 0), TRUE, Allow(0, TogglesRegs, 0, TogglesWrites))

NextToggles ==
    \/ Advance(TogglesGrid)
    \/ Tick
    \/ Points(Player(1), THRESHOLD, "wed")
    \/ \E feature \in {"AUTO_VS_REMINDER", "AUTO_DRAW_D"}, mode \in {"on", "off"} : Auto(feature, mode)

SpecToggles == InitToggles /\ [][NextToggles]_vars

\* The messages the last operation delivered
NewMessages == SubSeq(outbox, last.sent + 1, Len(outbox))

\* C22: a run of the minute loop while the stored toggle of a feature is
\* off does not perform the feature's action: no VS reminder is delivered
\* while AUTO_VS_REMINDER is off, no daily draw is written while AUTO_DRAW_D
\* is off.
C22_OffMeansOff ==
    last.op = "tick" =>
        /\ doc.auto["AUTO_VS_REMINDER"] = "False"
              => \A m \in Range(NewMessages) : m.key[1] # "VS"
        /\ doc.auto["AUTO_DRAW_D"] = "False"
              => \A r \in Range(NewRows) : r.tipo # "D"

\* Both features were turned off on Wednesday and the 02:30 run wrote
\* Thursday's daily draw all the same
C22_DrawnWhileOff ==
    /\ last.op = "tick" /\ last.at = Clock(10, 2, 30)
    /\ doc.auto["AUTO_DRAW_D"] = "False" /\ doc.auto["AUTO_VS_REMINDER"] = "False"
    /\ \E r \in Range(NewRows) : r.tipo = "D" /\ r.passenger = Player(1)

\* ------------------------------------------------------------------------
\* SpecAverages: one registration for each of Tuesday to Friday, made on
\* Saturday noon (day 12) from an empty store, under names that are one
\* typing slip apart from each other.
\* ------------------------------------------------------------------------
ChikenL0bo == <<"C", "h", "i", "k", "e", "n", "L", "0", "b", "o">>

AveragesDays == <<"tue", "wed", "thu", "fri">>
AveragesRegs == 4

InitAverages == InitAt(Clock(12, 12, 0), FALSE, Allow(0, AveragesRegs, 0, 0))

NextAverages ==
    \E name \in {ChiknLobo, ChikenL0bo, ChikenLobo, Zed}, amount \in {3 * THRESHOLD, THRESHOLD} :
        /\ RegsThisWeek < Len(AveragesDays)
        /\ Points(name, amount, AveragesDays[RegsThisWeek + 1])

SpecAverages == InitAverages /\ [][NextAverages]_vars

\* The day entries of the current game week, Monday to Saturday
WeekEntries ==
    LET monday == monday_of(to_game_date(now))
        Day(i) == DictGet(doc.points, <<iso_week_key(to_game_date(now)), monday + i>>, <<>>)
    IN  Day(0) \o Day(1) \o Day(2) \o Day(3) \o Day(4) \o Day(5)

RECURSIVE SumValues(_)
SumValues(items) == IF items = <<>> THEN 0 ELSE Head(items).v + SumValues(Tail(items))

\* The sum of the week's day totals entered under a name equivalent to n
IdentitySum(n) == SumPoints(SelectSeq(WeekEntries, LAMBDA e : _names_equivalent(e.name, n)))

\* Every day entry belongs to exactly one identity of the summary
IdentitiesApart(sums) ==
    \A i \in DOMAIN WeekEntries :
        Cardinality({j \in DOMAIN sums : _names_equivalent(WeekEntries[i].name, sums[j].k)}) = 1

\* C23: six times an identity's average is the sum of the identity's
\* Monday-Saturday day totals, however many days have an entry: every day
\* total of the week is in the averages once, an identity that the names
\* of the week tell apart from the others has exactly its own day totals,
\* and the average-eligibles are the identities whose day totals sum to at
\* least six times the threshold.
C23_AverageIsSumOverSix ==
    LET sums == weekly_summary(doc, now).sums
    IN  /\ SumValues(sums) = SumPoints(WeekEntries)
        /\ IdentitiesApart(sums) =>
              /\ \A j \in DOMAIN sums : sums[j].v = IdentitySum(sums[j].k)
              /\ Range(AverageEligibles(weekly_summary(doc, now), THRESHOLD))
                    = {sums[j].k : j \in {j \in DOMAIN sums : IdentitySum(sums[j].k) >= 6 * THRESHOLD}}

\* A player with entries on two days only, three thresholds each, is
\* average-eligible next to a player with four days at the threshold who
\* is not
C23_TwoDaysEnough ==
    LET summary == weekly_summary(doc, now)
    IN  /\ Len(WeekEntries) = 4
        /\ IdentitiesApart(summary.sums)
        /\ Len(summary.sums) = 2
        /\ Range(AverageEligibles(summary, THRESHOLD)) = {Zed}
        /\ IdentitySum(Zed) = 6 * THRESHOLD
        /\ IdentitySum(ChikenLobo) = 4 * THRESHOLD

\* ------------------------------------------------------------------------
\* SpecNames: _names_equivalent applied to pairs of names (storage.py)
\* ------------------------------------------------------------------------
Lnhrf    == <<"L", "n", "h", "r", "f">>
Lnhrs    == <<"L", "n", "h", "r", "s">>
Lnxrf    == <<"L", "n", "x", "r", "f">>
Abcd     == <<"A", "b", "c", "d">>
Abed     == <<"A", "b", "e", "d">>
AbSpCd   == <<"A", "b", " ", "c", "d">>
AbSpSpCd == <<"A", "b", " ", " ", "c", "d">>
AbxCd    == <<"a", "b", "x", "C", "D">>
DashAbxCd == <<"-", "a", "b", "x", "c", "d">>
Dashes4  == <<"-", "-", "-", "-", "-">>
Dashes5  == <<"-", "-", "-", "-", "-", "-">>
ANGELO   == <<"A", "N", "G", "E", "L", "O">>
ANGEL0   == <<"A", "N", "G", "E", "L", "U+00D8">>
angel0   == <<"a", "n", "g", "e", "l", "U+00F8">>
ANGEL    == <<"A", "N", "G", "E", "L">>
AN0GEL   == <<"A", "N", "U+00D8", "G", "E", "L">>

NamesPool ==
    { ChiknLobo, ChikenLobo, ChickenLobo, ChikenL0bo, Padded(ChiknLobo), Lower(ChikenLobo),
      Lnhrf, Lnhrs, Lnxrf, Abcd, Abed, Padded(Abcd), Padded(Abed),
      AbSpCd, AbSpSpCd, AbxCd, DashAbxCd, Dashes4, Dashes5,
      ANGELO, ANGEL0, angel0, ANGEL, AN0GEL, <<>> }

InitNames == InitAt(Clock(13, 12, 0), FALSE, Allow(0, 0, 0, 0))

\* one call _names_equivalent(a, b); the answer is kept in last.ok
NamesEquivalent(a, b) ==
    /\ last' = [NoOp EXCEPT !.op = "names_equivalent", !.name = a, !.arg = b,
                            !.ok = _names_equivalent(a, b), !.at = now]
    /\ UNCHANGED <<now, alive, lastTick, doc, mtime, sorteos, registros, outbox,
                   marked, regLog, left, disk, posted, sending>>

NextNames == \E a \in NamesPool, b \in NamesPool : NamesEquivalent(a, b)

SpecNames == InitNames /\ [][NextNames]_vars

\* a and b are equal, or one substitution, insertion or deletion apart
Without(s, k) == [i \in 1..(Len(s) - 1) |-> IF i < k THEN s[i] ELSE s[i + 1]]

AtMostOneEdit(a, b) ==
    \/ a = b
    \/ Len(a) = Len(b) /\ Cardinality({i \in DOMAIN a : a[i] # b[i]}) = 1
    \/ Len(a) = Len(b) + 1 /\ \E k \in DOMAIN a : Without(a, k) = b
    \/ Len(b) = Len(a) + 1 /\ \E k \in DOMAIN b : Without(b, k) = a

AlnumAt(s) == {i \in DOMAIN s : IsAlnumChar(s[i])}
SetMin(S) == CHOOSE x \in S : \A y \in S : x <= y

SharedEnds(a, b) ==
    /\ AlnumAt(a) # {} /\ AlnumAt(b) # {}
    /\ CasefoldChar(a[SetMin(AlnumAt(a))]) = CasefoldChar(b[SetMin(AlnumAt(b))])
    /\ CasefoldChar(a[SetMax(AlnumAt(a))]) = CasefoldChar(b[SetMax(AlnumAt(b))])

PureAscii(s) == \A i \in DOMAIN s : s[i] \notin {"U+00D8", "U+00F8"}

StoredDays == {doc.points[i].k[2] : i \in DOMAIN doc.points}

\* C25: every registration accepted through the points command is stored
\* under a game day that is Monday to Saturday and not later than the current
\* game day, whatever the current weekday and the optional day key; a day key
\* naming a later day of the running week is refused, and no Sunday is
\* ever stored.
C25_StoredDayNotAhead ==
    /\ \A d \in StoredDays : isoweekday(d) \in 1..6 /\ d <= to_game_date(now)
    /\ (last.op = "points" /\ last.ok) =>
           /\ isoweekday(last.date_key) \in 1..6
           /\ last.date_key <= to_game_date(last.at)
           /\ last.date_key \in StoredDays
    /\ (last.op = "points" /\ last.day # NoDay) =>
           LET current_wd == isoweekday(to_game_date(last.at))
           IN  (current_wd \in 2..6 /\ _DAY_OFFSETS[last.day] + 1 > current_wd) => ~last.ok

\* on a game Saturday a registration for "sat" went in under the day itself,
\* after a Wednesday request for "thu" had been turned away
C25_TodayAcceptedOnSaturday ==
    /\ last.op = "points" /\ last.ok /\ last.day = "sat"
    /\ isoweekday(to_game_date(last.at)) = 6
    /\ last.date_key = to_game_date(last.at)
    /\ ~PointsTarget(Clock(16, 12, 0), "thu").ok


\* ------------------------------------------------------------------------
\* SpecMonday: Saturday's points, then the 02:30 runs and the manual daily
\* draw on game Sunday (days 13, 14 before 02:00) and game Monday (day 14).
\* ------------------------------------------------------------------------
MondayGrid == { Clock(12, 12, 0), Clock(13, 2, 30), Clock(14, 1, 0),
                Clock(14, 2, 30), Clock(14, 12, 0) }
MondayPlayers == 2
MondayDraws == 2

InitMonday == InitAt(Clock(12, 12, 0), TRUE, Allow(0, MondayPlayers, MondayDraws, 0))

NextMonday ==
    \/ Advance(MondayGrid)
    \/ Tick
    \/ \E k \in 1..MondayPlayers : Points(Player(k), THRESHOLD, "sat")
    \/ DrawD

SpecMonday == InitMonday /\ [][NextMonday]_vars

BasedOnSunday(t) == isoweekday(to_game_date(t) - 1) = 7

\* C26: a daily draw, asked for or automatic, whose base day (the game day
\* before the current one) is a game Sunday is turned away and appends no
\* record; no daily record in the logs is based on a Sunday.
C26_NeverBasedOnSunday ==
    /\ \A i \in DOMAIN sorteos : sorteos[i].tipo = "D" => isoweekday(sorteos[i].fecha) # 7
    /\ (last.op = "draw_d" /\ BasedOnSunday(last.at)) => ~last.ok /\ NewRows = <<>>
    /\ (last.op = "tick" /\ BasedOnSunday(last.at)) => \A r \in Range(NewRows) : r.tipo # "D"

\* the Monday 02:30 run went by with Saturday's eligibles in the store and
\* appended nothing, after a daily draw based on Saturday had been recorded
C26_MondayRunAppendsNothing ==
    /\ last.op = "tick" /\ last.ok /\ last.at = Clock(14, 2, 30)
    /\ NewRows = <<>>
    /\ 12 \in StoredDays
    /\ \E i \in DOMAIN sorteos : sorteos[i].tipo = "D" /\ sorteos[i].fecha = 12


\* ------------------------------------------------------------------------
\* SpecWeekdays: a complete week (days 7..12) in the store on its Sunday
\* 02:30; the players register again on the Tuesday after it, and the weekly
\* draw is asked for, and the 02:30 run goes by, on days of that week.
\* ------------------------------------------------------------------------
WeekdaysGrid == { Clock(13, 2, 30), Clock(15, 2, 30), Clock(15, 12, 0),
                  Clock(17, 12, 0), Clock(19, 2, 30), Clock(19, 12, 0) }
WeekdaysRegs == 5
WeekdaysDraws == 2

InitWeekdays ==
    \E seed \in {FullWeek(7, AutoSmallPool)} :
        /\ now = Clock(13, 2, 30)
        /\ alive = TRUE
        /\ lastTick = -1
        /\ doc = seed.doc
        /\ mtime = from_game_date(12)
        /\ sorteos = <<>>
        /\ registros = seed.registros
        /\ outbox = <<>>
        /\ marked = {}
        /\ regLog = seed.regLog
        /\ last = NoOp
        /\ left = Allow(0, WeekdaysRegs, WeekdaysDraws, 0)
        /\ disk = DiskIdle
        /\ posted = NotPosted
        /\ sending = NotSending

NextWeekdays ==
    \/ Advance(WeekdaysGrid)
    \/ Tick
    \/ /\ isoweekday(to_game_date(now)) \in 2..6
       /\ RegsThisWeek < WeekdaysRegs
       /\ Points(Player(RegsThisWeek + 1), WeekAmount, "tue")
    \/ DrawW

SpecWeekdays == InitWeekdays /\ [][NextWeekdays]_vars

\* C27: a weekly draw asked for on a game day from Tuesday to Saturday is
\* turned away and appends no record; the 02:30 run writes weekly records
\* on a game Sunday only.
C27_WeeklyOnlySundayMonday ==
    /\ (last.op = "draw_w" /\ isoweekday(to_game_date(last.at)) \in 2..6) =>
           ~last.ok /\ NewRows = <<>>
    /\ (last.op = "tick" /\ isoweekday(to_game_date(last.at)) # 7) =>
           \A r \in Range(NewRows) : r.tipo # "W"

\* the Sunday run had drawn the closed week, and on the Thursday after it
\* the command was turned away with five average-eligible players in the
\* running week
C27_ThursdayTurnedAway ==
    /\ last.op = "draw_w" /\ ~last.ok /\ last.at = Clock(17, 12, 0)
    /\ Len(AverageEligibles(weekly_summary(doc, last.at), THRESHOLD)) >= 5
    /\ \E i \in DOMAIN sorteos : sorteos[i].tipo = "W" /\ sorteos[i].fecha = 13


\* ------------------------------------------------------------------------
\* SpecCalendar: to_game_date and from_game_date under every cutover hour
\* that config.py can hand to time(GAME_CUTOVER_UTC, 0, 0), on the instants
\* around midnight, the cutover and noon.
\* ------------------------------------------------------------------------
CutoverHours == 0..23
CalendarDays == 2
CalendarInstants(cutover) ==
    UNION { { AtTime(d, 0, 0), AtTime(d, 0, 0) + 1,
              AtTime(d, cutover, 0) - 1, AtTime(d, cutover, 0), AtTime(d, cutover, 0) + 1,
              AtTime(d, 12, 0) - 1, AtTime(d, 12, 0), AtTime(d, 23, 59) + 59 }
            : d \in 7..(6 + CalendarDays) }

InitCalendar == InitAt(Clock(7, 12, 0), FALSE, Allow(0, 0, 0, 0))

\* to_game_date(t) and the date's way back through from_game_date
GameDate(cutover, t) ==
    /\ last' = [NoOp EXCEPT !.op = "to_game_date", !.arg = <<cutover>>, !.at = t,
                            !.date_key = to_game_date_under(cutover, t),
                            !.target_gd = to_game_date_under(cutover,
                                              from_game_date(to_game_date_under(cutover, t)))]
    /\ UNCHANGED <<now, alive, lastTick, doc, mtime, sorteos, registros, outbox,
                   marked, regLog, left, disk, posted, sending>>

NextCalendar == \E cutover \in CutoverHours : \E t \in CalendarInstants(cutover) : GameDate(cutover, t)

SpecCalendar == InitCalendar /\ [][NextCalendar]_vars

\* C28: for every instant t and every configured cutover hour,
\* to_game_date(from_game_date(to_game_date(t))) = to_game_date(t).
C28_RoundTrip ==
    last.op = "to_game_date" => last.target_gd = last.date_key

\* under the cutover of 02:00 an instant before the cutover went to the
\* previous date and came back to it through from_game_date
C28_RoundTripAtDefault ==
    /\ last.op = "to_game_date" /\ last.arg = <<GAME_CUTOVER_UTC>>
    /\ last.at = AtTime(8, GAME_CUTOVER_UTC, 0) - 1
    /\ last.date_key = 7 /\ last.target_gd = 7

UtcDate(t) == t \div 86400
UtcHour(t) == (t % 86400) \div 3600

\* C29: to_game_date(t) is the UTC date of t when t's UTC time of day is at
\* or after the cutover hour and the date before it otherwise; the instant
\* exactly at the cutover gets the date of the instant right after it, and
\* the instant one second before the cutover gets the date before.
C29_CutoverBoundary ==
    last.op = "to_game_date" =>
        LET cutover == last.arg[1]
            t == last.at
        IN  /\ last.date_key = IF UtcHour(t) >= cutover THEN UtcDate(t) ELSE UtcDate(t) - 1
            /\ (t % 86400 = cutover * 3600) =>
                   /\ last.date_key = to_game_date_under(cutover, t + 1)
                   /\ to_game_date_under(cutover, t - 1) = last.date_key - 1

\* the instant exactly at the 02:00 cutover of day 8 was mapped to day 8
C29_ExactlyAtCutover ==
    /\ last.op = "to_game_date" /\ last.arg = <<GAME_CUTOVER_UTC>>
    /\ last.at = AtTime(8, GAME_CUTOVER_UTC, 0)
    /\ last.date_key = 8


\* ------------------------------------------------------------------------
\* Driver rotation (utils/train_utils.py)
\* ------------------------------------------------------------------------
Pending == <<"P", "e", "n", "d", "i", "n", "g">>
NoDriver == <<>>

_monday_of(d) == d - (isoweekday(d) - 1)

\* driver_for_day counting the weeks from the anchor as it was handed in
driver_for_day_raw_anchor(drivers10, anchor_monday, game_day) ==
    LET week_monday == _monday_of(game_day)
        wd          == isoweekday(game_day)
        delta_weeks == (week_monday - anchor_monday) \div 7
        idx         == (IF delta_weeks % 2 = 0 THEN 0 ELSE 5) + (wd - 1)
    IN  IF wd < 1 \/ wd > 5 THEN NoDriver
        ELSE IF drivers10 = <<>> \/ idx >= Len(drivers10) THEN Pending
        ELSE IF Strip(drivers10[idx + 1]) # <<>> THEN Strip(drivers10[idx + 1]) ELSE Pending

\* driver_for_day(drivers10, anchor_monday, game_day): NoDriver stands for
\* None; Python's floor division and & 1 on a negative week count are
\* \div and % 2 here
driver_for_day(drivers10, anchor_monday, game_day) ==
    LET anchor      == _monday_of(anchor_monday)
        week_monday == _monday_of(game_day)
        wd          == isoweekday(game_day)
        delta_days  == week_monday - anchor
        delta_weeks == delta_days \div 7
        week_parity == delta_weeks % 2
        base        == IF week_parity = 0 THEN 0 ELSE 5
        idx         == base + (wd - 1)
    IN  IF wd < 1 \/ wd > 5 THEN NoDriver
        ELSE IF drivers10 = <<>> \/ idx >= Len(drivers10) THEN Pending
        ELSE LET name == Strip(drivers10[idx + 1])
             IN  IF name # <<>> THEN name ELSE Pending

\* ------------------------------------------------------------------------
\* SpecDrivers: driver_for_day on six weeks of days around the anchor
\* ------------------------------------------------------------------------
DriversFirstDay == 0
DriversLastDay == 41
DriversAnchors == {14, 16, 21}
SevenDrivers == SubSeq(TenDrivers, 1, 7)
GappedDrivers == [i \in 1..10 |-> IF i = 2 THEN <<>>
                                  ELSE IF i = 7 THEN <<" ", " ">>
                                  ELSE IF i = 4 THEN Padded(TenDrivers[4])
                                  ELSE TenDrivers[i]]
DriversRosters == { <<>>, TenDrivers, SevenDrivers, GappedDrivers }

InitDrivers == InitAt(Clock(14, 12, 0), FALSE, Allow(0, 0, 0, 0))

DriverForDay(drivers10, anchor_monday, game_day) ==
    /\ last' = [NoOp EXCEPT !.op = "driver_for_day", !.arg = <<drivers10, anchor_monday>>,
                            !.date_key = game_day,
                            !.display = driver_for_day(drivers10, anchor_monday, game_day)]
    /\ UNCHANGED <<now, alive, lastTick, doc, mtime, sorteos, registros, outbox,
                   marked, regLog, left, disk, posted, sending>>

NextDrivers ==
    \E drivers10 \in DriversRosters, anchor_monday \in DriversAnchors,
       game_day \in DriversFirstDay..DriversLastDay :
        DriverForDay(drivers10, anchor_monday, game_day)

SpecDrivers == InitDrivers /\ [][NextDrivers]_vars

\* The Monday that opens the week of the day d (day 0 is a Monday)
WeekStart(d) == 7 * (d \div 7)

\* 0 where an even number of whole weeks lies between the weeks of a and d
WeeksParity(a, d) ==
    IF \E k \in -DriversLastDay..DriversLastDay : WeekStart(d) - WeekStart(a) = 14 * k THEN 0 ELSE 1

\* C30: driver_for_day gives no driver for a Saturday or Sunday; for a
\* weekday it gives the (trimmed) roster slot 5*p + isoweekday - 1, p the
\* parity of the whole weeks between the Monday of the anchor's week and the
\* Monday of the day's week, before the anchor as after it, so that the
\* assignment repeats every 14 days and the next week uses the other half;
\* an empty roster, an index past its end or a blank slot gives "Pending".
C30_RotationSlot ==
    last.op = "driver_for_day" =>
        LET drivers10 == last.arg[1]
            anchor    == last.arg[2]
            game_day  == last.date_key
            wd        == isoweekday(game_day)
            slot      == 5 * WeeksParity(anchor, game_day) + wd
        IN  /\ wd \in {6, 7} => last.display = NoDriver
            /\ wd \in 1..5 =>
                   /\ last.display =
                          IF drivers10 = <<>> \/ slot > Len(drivers10) THEN Pending
                          ELSE IF \A i \in DOMAIN drivers10[slot] : drivers10[slot][i] = " " THEN Pending
                          ELSE SelectSeq(drivers10[slot], LAMBDA c : c # " ")
                   /\ last.display # NoDriver
                   /\ drivers10 = TenDrivers =>
                          LET next == driver_for_day(drivers10, anchor, game_day + 7)
                          IN  \E i \in 1..10 : /\ TenDrivers[i] = last.display
                                               /\ next = TenDrivers[((i + 4) % 10) + 1]
            /\ driver_for_day(drivers10, anchor, game_day + 14) = last.display

\* a Wednesday two weeks before the week of an anchor given as a Wednesday
\* got the third name of the first half, and the week after it the eighth
C30_BeforeTheAnchor ==
    /\ last.op = "driver_for_day" /\ last.arg = <<TenDrivers, 16>>
    /\ last.date_key = 2
    /\ last.display = TenDrivers[3]
    /\ driver_for_day(TenDrivers, 16, 9) = TenDrivers[8]
    /\ driver_for_day(SevenDrivers, 16, 9) = Pending


\* ------------------------------------------------------------------------
\* SpecMinutes: the loop of tasks.loop(minutes=1) running without a gap for
\* a day, the channel there and every send accepted, with one MG schedule
\* in the store: 10:00 server time on the odd days, or 22:30 server time on
\* the even days.
\* ------------------------------------------------------------------------
MinutesRun == 1500
MinutesStart == Clock(12, 11, 0)
MinutesSchedules ==
    { mg(EmptyDoc, 7, T1000, NoHHMM, Clock(5, 12, 0)).doc,
      mg(EmptyDoc, 6, T2230, NoHHMM, Clock(5, 12, 0)).doc }

InitMinutes ==
    /\ now = MinutesStart
    /\ alive = TRUE
    /\ lastTick = -1
    /\ doc \in MinutesSchedules
    /\ mtime = Clock(5, 12, 0)
    /\ sorteos = <<>>
    /\ registros = <<>>
    /\ outbox = <<>>
    /\ marked = {}
    /\ regLog = <<>>
    /\ last = NoOp
    /\ left = Allow(0, 0, 0, 0)
    /\ disk = DiskIdle
    /\ posted = NotPosted
    /\ sending = NotSending

\* The loop sleeps its minute after the run at `now`
LoopMinute ==
    /\ alive
    /\ lastTick = now
    /\ now < MinutesStart + MinutesRun * MinuteSecs
    /\ now' = now + MinuteSecs
    /\ UNCHANGED <<alive, lastTick, doc, mtime, sorteos, registros, outbox, marked,
                   regLog, last, left, disk, posted, sending>>

NextMinutes ==
    \/ Tick
    \/ LoopMinute

SpecMinutes == InitMinutes /\ [][NextMinutes]_vars

\* The server days the run of SpecMinutes can meet
MinutesDays == 11..14

\* C31: with a run every 60 seconds, the channel there and every send
\* accepted, each of the four lead-time reminders of every occurrence is
\* delivered in time: the run that falls in the minute up to (occurrence -
\* lead time) delivers the reminder of that kind and label, once.
C31_ReminderInItsMinute ==
    (last.op = "tick" /\ get_schedule(doc, "MG") # NoSchedule) =>
        LET cfg == get_schedule(doc, "MG")[1]
        IN  \A date \in MinutesDays : \A i \in DOMAIN LeadTimes :
                LET mark_time == InstantOn(cfg, date) - LeadTimes[i].delta
                IN  (OccursOn(cfg, date) /\ mark_time - 59 <= last.at /\ last.at <= mark_time) =>
                        Cardinality({k \in DOMAIN NewMessages :
                                        /\ NewMessages[k].key[1] = "MG"
                                        /\ NewMessages[k].key[3] = LeadTimes[i].label}) = 1

\* five minutes before the 10:00 occurrence of day 13 the last of its four
\* reminders went out, each of them delivered once
C31_AllFourDelivered ==
    /\ last.op = "tick" /\ last.at = Clock(13, 11, 54)
    /\ \E m \in Range(NewMessages) : m.key = <<"MG", 13, "5m">>
    /\ \A i \in DOMAIN LeadTimes :
           Cardinality(DeliveriesOf(<<"MG", 13, LeadTimes[i].label>>)) = 1


\* ------------------------------------------------------------------------
\* SpecDigest: /mg and /zs given on the Sunday before a week, in the small
\* hours of its Monday (still game Sunday), on the Monday and in mid-week;
\* the loop runs at 02:00 UTC of the week's Sunday (day 13).
\* ------------------------------------------------------------------------
DigestGrid == { Clock(6, 12, 0), Clock(7, 1, 0), Clock(7, 12, 0), Clock(10, 12, 0),
                Clock(13, 2, 0) }
DigestCommands == 2

InitDigest == InitAt(Clock(6, 12, 0), TRUE, Allow(DigestCommands, 0, 0, 0))

NextDigest ==
    \/ Advance(DigestGrid)
    \/ Tick
    \/ \E kind \in {"MG", "ZS"}, weekend_hhmm \in {NoHHMM, T1005} :
          Schedule(kind, ServerToday, T1000, weekend_hhmm)

SpecDigest == InitDigest /\ [][NextDigest]_vars

\* The digests among the messages of the last run
NewDigests == SelectSeq(NewMessages, LAMBDA m : m.key[1] = "CAL")

\* The days of the span on which the stored schedule of kind recurs
SpanDays(kind, gd_mon) ==
    IF get_schedule(doc, kind) = NoSchedule THEN {}
    ELSE LET first_gd == to_game_date(get_schedule(doc, kind)[1].first_utc)
         IN  {d \in gd_mon..(gd_mon + 6) :
                 \E k \in 0..6 : d = first_gd + k * EVENT_LABELS[kind]}

SetBefore(kind, gd_mon) ==
    /\ get_schedule(doc, kind) # NoSchedule
    /\ to_game_date(get_schedule(doc, kind)[1].updated_at) < gd_mon

\* C32: the weekly digest sent at the start of game Sunday lists the
\* occurrences of a kind for the Monday-to-Sunday span that ends that day
\* only if the kind's schedule was last set on a game day before the span's
\* Monday, and then all of them; a kind set on or after that Monday
\* has no entry in that digest.
C32_DigestLeavesOutMidweek ==
    last.op = "tick" =>
        \A k \in DOMAIN NewDigests :
            LET gd_mon == to_game_date(last.at) - 6
                listed(kind) == {e.day : e \in {x \in Range(NewDigests[k].body) : x.kind = kind}}
            IN  /\ isoweekday(to_game_date(last.at)) = 7
                /\ \A kind \in {"MG", "ZS"} :
                       listed(kind) = IF SetBefore(kind, gd_mon) THEN SpanDays(kind, gd_mon) ELSE {}

\* a digest went out with the MG days of the week, set in the small hours
\* of the Monday, while ZS, set at the Monday's noon, is not in it
C32_DigestWithoutZs ==
    /\ last.op = "tick" /\ last.at = Clock(13, 2, 0)
    /\ Len(NewDigests) = 1
    /\ \E e \in Range(NewDigests[1].body) : e.kind = "MG"
    /\ \A e \in Range(NewDigests[1].body) : e.kind # "ZS"
    /\ get_schedule(doc, "MG")[1].updated_at = Clock(7, 1, 0)
    /\ get_schedule(doc, "ZS") # NoSchedule
    /\ get_schedule(doc, "ZS")[1].updated_at = Clock(7, 12, 0)


\* ------------------------------------------------------------------------
\* SpecTwice: a complete week in the store on its Sunday at 02:10 UTC; the
\* manual draws before the 02:30 minute, two runs of the loop inside that
\* minute and a restart, on the Sunday (day 13) and, after new points on
\* the Tuesday, on the Wednesday (day 16).
\* ------------------------------------------------------------------------
TwiceGrid == { Clock(13, 2, 10), Clock(13, 2, 30), Clock(13, 2, 30) + 20,
               Clock(15, 12, 0),
               Clock(16, 2, 10), Clock(16, 2, 30), Clock(16, 2, 30) + 20 }
TwiceRestarts == 1
TwiceRegs == 2
TwiceDraws == 1

InitTwice ==
    \E seed \in {FullWeek(7, AutoSmallPool)} :
        /\ now = Clock(13, 2, 10)
        /\ alive = TRUE
        /\ lastTick = -1
        /\ doc = seed.doc
        /\ mtime = from_game_date(12)
        /\ sorteos = <<>>
        /\ registros = seed.registros
        /\ outbox = <<>>
        /\ marked = {}
        /\ regLog = seed.regLog
        /\ last = NoOp
        /\ left = Allow(TwiceRestarts, TwiceRegs, TwiceDraws, 0)
        /\ disk = DiskIdle
        /\ posted = NotPosted
        /\ sending = NotSending

NextTwice ==
    \/ Advance(TwiceGrid)
    \/ Tick
    \/ Restart
    \/ /\ now = Clock(15, 12, 0)
       /\ RegsThisWeek < TwiceRegs
       /\ Points(Player(RegsThisWeek + 1), THRESHOLD, "tue")
    \/ DrawD
    \/ DrawW

SpecTwice == InitTwice /\ [][NextTwice]_vars

\* The rows that were in the logs before the last operation
OldRows == SubSeq(sorteos, 1, last.from)

\* C33: over runs of the loop and restarts, two runs inside the 02:30
\* minute and a manual draw earlier the same game day included, a run never
\* appends a D record for a date for which the week's log already holds a D
\* record, and never appends W records to a log that already holds one.
C33_NoSecondAutomaticDraw ==
    last.op = "tick" =>
        \A r \in Range(NewRows) : \A o \in Range(OldRows) :
            o.file = r.file =>
                /\ r.tipo = "D" => ~(o.tipo = "D" /\ o.for = r.for)
                /\ r.tipo = "W" => o.tipo # "W"

\* the second run inside the Wednesday's 02:30 minute appended nothing, with
\* the day's D record and the earlier week's W records in the logs
C33_SecondRunInTheMinute ==
    /\ last.op = "tick" /\ last.ok /\ last.at = Clock(16, 2, 30) + 20
    /\ NewRows = <<>>
    /\ Cardinality({i \in DOMAIN sorteos : sorteos[i].tipo = "D" /\ sorteos[i].for = 16}) = 1
    /\ \E i \in DOMAIN sorteos : sorteos[i].tipo = "W" /\ sorteos[i].fecha = 13


\* ------------------------------------------------------------------------
\* SpecRedoDay: points for Friday and Saturday, the daily draw on the
\* Saturday (for that day) and on the Sunday (for the Monday), and redo_d
\* for the two target dates.
\* ------------------------------------------------------------------------
RedoDayGrid == { Clock(12, 12, 0), Clock(13, 12, 0), Clock(14, 12, 0) }
RedoDayRegs == 2
RedoDayDraws == 2
RedoDayRuns == 1

InitRedoDay == InitAt(Clock(12, 12, 0), FALSE, Allow(0, RedoDayRegs, RedoDayDraws, RedoDayRuns))

NextRedoDay ==
    \/ Advance(RedoDayGrid)
    \/ \E day \in {"fri", "sat"} : Points(Player(1), THRESHOLD, day)
    \/ DrawD
    \/ \E d \in {12, 14} : RedoD(yyyymmdd_from_date(d))

SpecRedoDay == InitRedoDay /\ [][NextRedoDay]_vars

\* The D records of a target date, in whichever log
DailyRecordsFor(rows, date) == {i \in DOMAIN rows : rows[i].tipo = "D" /\ rows[i].for = date}

\* C34: for every target date X for which a daily draw has written a D
\* record, redo_d(X) leaves no D record that targets X in any weekly draw
\* log.
C34_RedoDClearsTheDay ==
    (last.op = "redo_d" /\ DailyRecordsFor(last.before, IntOf(last.arg)) # {}) =>
        DailyRecordsFor(sorteos, IntOf(last.arg)) = {}

\* redo_d took the D record of the Saturday out of the week's log
C34_SaturdayRecordGone ==
    /\ last.op = "redo_d" /\ IntOf(last.arg) = 12
    /\ DailyRecordsFor(last.before, 12) # {}
    /\ DailyRecordsFor(sorteos, 12) = {}


\* ------------------------------------------------------------------------
\* The weekly clear (SpecStore)
\* ------------------------------------------------------------------------
\* C35: after the weekly-clear command has run, the document holds no point
\* entries for the current week: a following weekly_summary reports no
\* days, no eligible players and no averages for it.
C35_ResetEmptiesTheWeek ==
    last.op = "reset" =>
        LET s == weekly_summary(doc, last.at)
        IN  /\ s.days = {}
            /\ \A dk \in DOMAIN s.eligibles_by_day : s.eligibles_by_day[dk] = <<>>
            /\ s.sums = <<>>

\* the command ran on a store that holds Friday's entry of the running week
C35_ResetOnFilledWeek ==
    /\ last.op = "reset" /\ last.ok
    /\ to_game_date(last.at) = 12
    /\ 11 \in StoredDays


\* ------------------------------------------------------------------------
\* Target date of the daily draws (SpecMonday)
\* ------------------------------------------------------------------------
\* C36: the manual command and the automatic trigger, drawing at the same
\* instant, write a record for the same target date: the game day after
\* the base day, and the following Monday where the base day is a Saturday.
C36_SameTargetDate ==
    /\ \A r \in Range(sorteos) :
           r.tipo = "D" => r.for = IF isoweekday(r.fecha) = 6 THEN r.fecha + 2 ELSE r.fecha + 1
    /\ \A i, j \in DOMAIN sorteos :
           (sorteos[i].tipo = "D" /\ sorteos[j].tipo = "D" /\ sorteos[i].fecha = sorteos[j].fecha)
               => sorteos[i].for = sorteos[j].for

\* the command, on game Sunday, wrote the record of Saturday's draw for the
\* Monday
C36_ManualTargetsMonday ==
    /\ last.op = "draw_d" /\ last.ok /\ last.at = Clock(13, 2, 30)
    /\ Len(NewRows) = 1
    /\ NewRows[1].fecha = 12 /\ NewRows[1].for = 14


\* ------------------------------------------------------------------------
\* The train posts (scheduler_train.py, utils/train_utils.py)
\* ------------------------------------------------------------------------
set_train_anchor(d, anchor_monday) == [d EXCEPT !.train.anchor_monday = anchor_monday]

\* The first row of `rows` of one of the kinds written for the date target:
\* its passenger, or <<>> (None)
_find_per_day_pick(rows, target, kinds) ==
    LET hits == SelectSeq(rows, LAMBDA r : r.tipo \in kinds /\ r.for = target)
    IN  IF hits = <<>> THEN <<>> ELSE hits[1].passenger

\* _prev_sunday_ref and _this_week_ref
_prev_sunday_ref(d) == AtTime(d - 1, 0, 0)
_this_week_ref(d) == AtTime(d, 0, 0)

\* read_draw_for_date: the passenger of the day, or <<>>.  The legacy search
\* (_find_weekly_map_pick) reads day keys in a W row's detail; the rows the
\* draws write carry none, so it finds nothing in them.
read_draw_for_date(log, real_day) ==
    LET wd       == isoweekday(real_day)
        prev_csv == FileRows(log, week_csv_names(_prev_sunday_ref(real_day)))
        this_csv == FileRows(log, week_csv_names(_this_week_ref(real_day)))
        w_prev   == _find_per_day_pick(prev_csv, real_day, {"W"})
        d_prev   == _find_per_day_pick(prev_csv, real_day, {"D"})
        d_this   == _find_per_day_pick(this_csv, real_day, {"D"})
    IN  IF wd \notin 1..5 THEN <<>>
        ELSE IF w_prev # <<>> THEN w_prev
        ELSE IF d_prev # <<>> THEN d_prev
        ELSE IF wd = 1 THEN <<>>
        ELSE d_this

\* _safe_send: a failed send is swallowed
_safe_send(w, key, body, net) == IF net = "ok" THEN Deliver(w, key, "plain", body) ELSE w

\* _try_post_for_day: [ok, w]
_try_post_for_day(w, game_day, when_title, net) ==
    LET cfg    == get_train_config(w.doc)
        driver == driver_for_day(cfg.drivers, cfg.anchor_monday, game_day)
        pax    == read_draw_for_date(w.sorteos, DateOf(from_game_date(game_day)))
    IN  IF isoweekday(game_day) \notin 1..5 THEN [ok |-> TRUE, w |-> w]
        ELSE IF cfg.anchor_monday = NoDate \/ cfg.drivers = <<>> THEN [ok |-> FALSE, w |-> w]
        ELSE IF pax = <<>> THEN [ok |-> FALSE, w |-> w]
        ELSE [ok |-> TRUE,
              w  |-> _safe_send(w, <<"TRAIN", game_day, when_title>>, <<driver, pax>>, net)]

\* post_weekly_if_enabled: the lines of Monday to Friday (Saturday and
\* Sunday read the weekend rows, which none of the draws writes)
post_weekly_if_enabled(w, game_day, net) ==
    LET cfg    == get_train_config(w.doc)
        monday == monday_of(game_day)
        lines  == [i \in 1..5 |->
                      <<driver_for_day(cfg.drivers, cfg.anchor_monday, monday + (i - 1)),
                        read_draw_for_date(w.sorteos, DateOf(from_game_date(monday + (i - 1))))>>]
    IN  IF ~cfg.post_full_on_monday THEN w
        ELSE IF cfg.anchor_monday = NoDate \/ cfg.drivers = <<>> THEN w
        ELSE _safe_send(w, <<"TRAIN", game_day, "weekly">>, lines, net)

\* TrainScheduler.loop, step by step; each step takes the world w and the
\* fields p and gives [w, p].
\* The post of 03:00 UTC, with the week's lineup on a game Monday
loop_0100(w, p, t, net) ==
    LET gd == to_game_date(t)
        r  == _try_post_for_day(w, gd, "0100", net)
        w1 == IF r.ok THEN r.w ELSE _safe_send(r.w, <<"TRAIN", gd, "missing">>, <<>>, net)
        wk == isoweekday(gd) = 1 /\ p._posted_weekly_for_monday # gd
    IN  IF HHMMOf(t) # <<3, 0>> \/ p._posted_today_0100 = gd THEN [w |-> w, p |-> p]
        ELSE [w |-> IF wk THEN post_weekly_if_enabled(w1, gd, net) ELSE w1,
              p |-> [p EXCEPT !._pending_day = IF r.ok THEN @ ELSE gd,
                              !._posted_today_0100 = gd,
                              !._posted_weekly_for_monday = IF wk THEN gd ELSE @]]

\* The reminder of 16:30 UTC
loop_1430(w, p, t, net) ==
    LET gd == to_game_date(t)
    IN  IF HHMMOf(t) # <<16, 30>> \/ p._posted_today_1430 = gd THEN [w |-> w, p |-> p]
        ELSE [w |-> _try_post_for_day(w, gd, "1430", net).w,
              p |-> [p EXCEPT !._posted_today_1430 = gd]]

\* The update of a pending day
loop_pending(w, p, t, net) ==
    LET gd == to_game_date(t)
        r  == _try_post_for_day(w, gd, "update", net)
    IN  IF p._pending_day = NoDate \/ p._pending_day # gd THEN [w |-> w, p |-> p]
        ELSE [w |-> r.w, p |-> IF r.ok THEN [p EXCEPT !._pending_day = NoDate] ELSE p]

\* The cleanup once the game day has changed
loop_cleanup(w, p, t) ==
    LET gd == to_game_date(t)
    IN  IF /\ p._posted_today_0100 # NoDate /\ p._posted_today_0100 # gd
           /\ p._pending_day # NoDate /\ p._pending_day # gd
        THEN [w |-> w, p |-> [p EXCEPT !._pending_day = NoDate]]
        ELSE [w |-> w, p |-> p]

Then1430(s, t, net) == loop_1430(s.w, s.p, t, net)
ThenPending(s, t, net) == loop_pending(s.w, s.p, t, net)
ThenCleanup(s, t) == loop_cleanup(s.w, s.p, t)

\* TrainScheduler.loop: [w, p] after one run at the instant t on the world w
\* with the fields p
train_loop(w, p, t, chOk, net) ==
    IF ~chOk THEN [w |-> w, p |-> p]
    ELSE ThenCleanup(ThenPending(Then1430(loop_0100(w, p, t, net), t, net), t, net), t)

\* One run of TrainScheduler.loop
TrainLoop ==
    /\ posted.ran # now
    /\ \E chOk \in BOOLEAN, net \in {"ok", "fail"} :
        /\ ~chOk => net = "ok"
        /\ (chOk /\ net = "ok") \/ left.disturb > 0
        /\ \E res \in {train_loop(World, posted, now, chOk, net)} :
             /\ outbox' = res.w.outbox
             /\ posted' = [res.p EXCEPT !.ran = now]
             /\ last' = [NoOp EXCEPT !.at = now, !.op = "train_loop", !.ok = chOk, !.net = net,
                                     !.arg = <<posted._pending_day>>,
                                     !.from = Len(sorteos), !.sent = Len(outbox)]
        /\ left' = [left EXCEPT !.disturb = IF chOk /\ net = "ok" THEN @ ELSE @ - 1]
    /\ UNCHANGED <<now, alive, lastTick, doc, mtime, sorteos, registros, marked, regLog, disk, sending>>

\* The clock moves on once the loop has run at the present instant
TrainAdvance(grid) ==
    /\ posted.ran = now
    /\ Advance(grid)

\* SpecTrain: a seeded week, a roster and an anchor; the loop runs at every
\* instant of the grid from game Sunday to Thursday, with /draw W, /draw D
\* and /points between its runs
TrainGrid ==
    { Clock(13, 12, 0), Clock(14, 3, 0), Clock(14, 12, 0), Clock(14, 12, 1), Clock(14, 16, 30),
      Clock(15, 1, 59), Clock(15, 3, 0), Clock(15, 12, 0), Clock(15, 12, 1),
      Clock(16, 3, 0), Clock(16, 12, 0), Clock(16, 12, 1), Clock(16, 16, 30), Clock(17, 3, 0) }
TrainDisturb == 1
TrainRegs == 1
TrainDraws == 1

InitTrain ==
    \E seed \in {FullWeek(7, AutoLargePool)} :
        /\ now = Clock(13, 12, 0)
        /\ alive = FALSE
        /\ lastTick = -1
        /\ doc = set_train_anchor(set_train_drivers(seed.doc, TenDrivers), 14)
        /\ mtime = from_game_date(12)
        /\ sorteos = <<>>
        /\ registros = seed.registros
        /\ outbox = <<>>
        /\ marked = {}
        /\ regLog = seed.regLog
        /\ last = NoOp
        /\ left = Allow(TrainDisturb, TrainRegs, TrainDraws, 0)
        /\ disk = DiskIdle
        /\ posted = NotPosted
        /\ sending = NotSending

NextTrain ==
    \/ TrainAdvance(TrainGrid)
    \/ TrainLoop
    \/ /\ isoweekday(to_game_date(now)) = 2
       /\ Points(Player(1), THRESHOLD, "tue")
    \/ DrawD
    \/ DrawW

SpecTrain == InitTrain /\ [][NextTrain]_vars

\* A draw record for the game day gd is in the logs
DrawRecordFor(gd) == \E r \in Range(sorteos) : r.tipo \in {"D", "W"} /\ r.for = gd

Updates(msgs, gd) == SelectSeq(msgs, LAMBDA m : m.key = <<"TRAIN", gd, "update">>)

\* C37: a weekday whose 03:00 UTC post found no passenger is pending, and
\* the train is posted at the first later run of the same game day at
\* which a draw record for the day exists; the update is posted at most
\* once, and none is posted for a game day that has ended.
C37_PendingPostedWhenRecorded ==
    /\ (last.op = "train_loop" /\ last.ok /\ last.net = "ok") =>
           LET gd == to_game_date(last.at)
           IN  /\ (last.arg[1] = gd /\ isoweekday(gd) \in 1..5 /\ DrawRecordFor(gd))
                      => Len(Updates(NewMessages, gd)) = 1
               /\ \A m \in Range(NewMessages) : m.key[3] = "update" => m.key[2] = gd
               /\ (/\ HHMMOf(last.at) = <<3, 0>> /\ isoweekday(gd) \in 1..5
                   /\ ~DrawRecordFor(gd) /\ last.arg[1] # gd)
                      => posted._pending_day = gd
    /\ \A gd \in 13..17 : Len(Updates(outbox, gd)) <= 1

\* the update went out on Wednesday, at the run after /draw D wrote the
\* day's record
C37_UpdateAfterDailyDraw ==
    /\ last.op = "train_loop" /\ last.at = Clock(16, 12, 1)
    /\ last.arg[1] = 16
    /\ Len(Updates(NewMessages, 16)) = 1
    /\ posted._pending_day = NoDate


\* ------------------------------------------------------------------------
\* Identities in a day list (SpecIdentities): registrations of names one
\* edit apart from each other, and of one unlike them, on two days, each
\* with an amount of its own
\* ------------------------------------------------------------------------
IdentitiesRegs == 3
IdentitiesNames == {ChiknLobo, ChikenLobo, ChickenLobo, ChikenL0bo, Zed}

InitIdentities == InitAt(Clock(17, 12, 0), FALSE, Allow(0, IdentitiesRegs, 0, 0))

NextIdentities ==
    \E name \in IdentitiesNames, day \in {NoDay, "tue"} :
        Points(name, THRESHOLD + Len(regLog), day)

SpecIdentities == InitIdentities /\ [][NextIdentities]_vars

\* The day list the last registration went to
LastDayList == DictGet(doc.points, <<last.week_key, last.date_key>>, <<>>)

C39_AtMostOneReplaced ==
    [][ (last'.op = "points" /\ last'.ok) =>
            LET bucket == <<last'.week_key, last'.date_key>>
                before == DictGet(doc.points, bucket, <<>>)
                after  == DictGet(doc'.points, bucket, <<>>)
            IN  /\ Cardinality({i \in DOMAIN before : before[i] \notin Range(after)}) <= 1
                /\ \A i \in DOMAIN doc.points :
                       doc.points[i].k # bucket
                           => DictGet(doc'.points, doc.points[i].k, <<>>) = doc.points[i].v
      ]_vars

\* ChiknLobo and ChickenLobo were registered for one day, two edits apart
\* and so kept as two entries; the registration of ChikenLobo left one entry
C39_TwoIdentitiesGone ==
    /\ last.op = "points" /\ last.ok /\ last.name = ChikenLobo
    /\ Len(regLog) = 3
    /\ regLog[1].name = ChiknLobo /\ regLog[2].name = ChickenLobo
    /\ \A i \in 1..3 : regLog[i].date_key = last.date_key
    /\ ~_names_equivalent(ChiknLobo, ChickenLobo)
    /\ Len(LastDayList) = 1

\* ------------------------------------------------------------------------
\* One process: a run of the minute loop suspended at its sends, with
\* command handlers running in between (SpecInterleave).  The store
\* functions hold no await, so each is one step.
\* ------------------------------------------------------------------------
\* A mark written into the document the run read before its send
mark_fired_into_copy(stored, read, key) == mark_fired(read, key)

\* mark_fired as _maybe_fire calls it once the send has returned: it loads
\* the document at the call (stored), whatever the run read before the
\* send (read), and replaces it
mark_fired_after_send(stored, read, key) == mark_fired(stored, key)

RECURSIVE DueOfDays(_, _, _, _)
\* The keys of the reminders of `kind` whose minute holds t, in the order
\* _handle_event reaches them
DueOfDays(cfg, kind, t, day_offset) ==
    IF day_offset > 7 THEN <<>>
    ELSE LET gd_candidate == to_game_date(t) + day_offset
             ev    == FirerEventDt(cfg, gd_candidate)
             leads == IF ~FirerOccursOn(cfg, kind, gd_candidate) \/ ~ev.ok \/ ev.raises THEN <<>>
                      ELSE SelectSeq(LeadTimes, LAMBDA lead : Abs(t - (ev.utc - lead.delta)) <= 59)
         IN  [i \in DOMAIN leads |-> <<kind, gd_candidate, leads[i].label>>]
                 \o DueOfDays(cfg, kind, t, day_offset + 1)

\* get_schedule at the start of _handle_event
DueKeys(d, kind, t) ==
    IF get_schedule(d, kind) = NoSchedule THEN <<>>
    ELSE DueOfDays(get_schedule(d, kind)[1], kind, t, -1)

RECURSIVE NextSend(_, _, _, _)
\* Where the run stops next: at the send of the first key of todo, and of
\* the kinds after it, that has_fired does not find; or at its end
NextSend(d, kinds, todo, t) ==
    IF todo # <<>>
    THEN IF has_fired(d, Head(todo)) THEN NextSend(d, kinds, Tail(todo), t)
         ELSE [at |-> "send", key |-> Head(todo), read |-> <<d>>, kinds |-> kinds, todo |-> Tail(todo)]
    ELSE IF kinds # <<>> THEN NextSend(d, Tail(kinds), DueKeys(d, Head(kinds), t), t)
    ELSE NotSending

\* tick_loop starts and goes on to its first send
TickStart ==
    /\ alive
    /\ lastTick # now
    /\ sending.at = "idle"
    /\ sending' = NextSend(doc, <<"MG", "ZS">>, <<>>, now)
    /\ lastTick' = now
    /\ last' = [NoOp EXCEPT !.at = now, !.op = "tick", !.ok = TRUE,
                            !.from = Len(sorteos), !.sent = Len(outbox)]
    /\ UNCHANGED <<now, alive, doc, mtime, sorteos, registros, outbox, marked, regLog, left, disk, posted>>

\* The send returns: _maybe_fire marks the key and the run goes on to its
\* next send
SendReturns ==
    /\ sending.at = "send"
    /\ \E sent \in {IF sending.key[3] \in {"10m", "5m"}
                    THEN send_event_before_urgent(World, sending.key, "ok")
                    ELSE send_plain(World, sending.key, <<>>, "ok")},
          d2 \in {mark_fired_after_send(doc, sending.read[1], sending.key)} :
            /\ outbox' = sent.outbox
            /\ doc' = d2
            /\ sending' = NextSend(d2, sending.kinds, sending.todo, lastTick)
    /\ mtime' = now
    /\ marked' = marked \cup {sending.key}
    /\ last' = [NoOp EXCEPT !.at = now, !.op = "mark_fired", !.ok = TRUE,
                            !.arg = <<sending.key, doc # sending.read[1]>>,
                            !.from = Len(sorteos), !.sent = Len(outbox)]
    /\ UNCHANGED <<now, alive, lastTick, sorteos, registros, regLog, left, disk, posted>>

InterleaveGrid == { Clock(12, 11, 49), Clock(12, 11, 50), Clock(12, 11, 54) }
InterleaveCommands == 1
InterleaveRegs == 2
InterleaveWrites == 1

InitInterleave ==
    InitScheduled(Allow(InterleaveCommands, InterleaveRegs, 0, InterleaveWrites))

NextInterleave ==
    \/ sending.at = "idle" /\ Advance(InterleaveGrid)
    \/ TickStart
    \/ SendReturns
    \/ Points(Zed, THRESHOLD + Len(regLog), NoDay)
    \/ Schedule("ZS", ServerToday, T1000, NoHHMM)
    \/ Auto("AUTO_DRAW_D", "off")
    \/ TrainSetDrivers(TenDrivers)

SpecInterleave == InitInterleave /\ [][NextInterleave]_vars

\* C40: in one process, with command handlers running while a run of the
\* minute loop waits on a send, no store update is lost: every fired mark
\* the run wrote, the last points entry, the schedule and the setting the
\* commands wrote are all in the document.
C40_NoUpdateLost ==
    /\ marked \subseteq doc.fired_marks
    /\ regLog # <<>> =>
           LET r == regLog[Len(regLog)]
           IN  \E e \in Range(DictGet(doc.points, <<r.week_key, r.date_key>>, <<>>)) :
                   e.points = r.amount
    /\ left.disturb < InterleaveCommands => get_schedule(doc, "ZS") # NoSchedule
    /\ left.writes < InterleaveWrites =>
           (doc.auto["AUTO_DRAW_D"] # "None" \/ get_train_config(doc).drivers # <<>>)

\* the run marked a key after a send during which a registration and the
\* /zs command had changed the store
C40_MarkedAfterCommands ==
    /\ last.op = "mark_fired" /\ last.arg[2]
    /\ last.arg[1] \in doc.fired_marks
    /\ last.at = Clock(12, 11, 49)
    /\ regLog # <<>> /\ regLog[1].amount \in {e.points : e \in Range(DictGet(doc.points, <<regLog[1].week_key, regLog[1].date_key>>, <<>>))}
    /\ get_schedule(doc, "ZS") # NoSchedule
    /\ Len(outbox) = 1

====
